---------------------------- MODULE Spec2Model ----------------------------
(***************************************************************************)
(* Stock trackers of ts-stuff: the start-price tracker with a print        *)
(* threshold (yahoo-stock/src/index.ts, second program) with its           *)
(* termination on SIGINT, the daily summary reducer                        *)
(* (yahoo-stock/src/dailySummary.ts), run by the tracker or by itself, and *)
(* the single-stock SEK converter (unnamed/part_001).                      *)
(*                                                                         *)
(* JavaScript numbers are modelled as exact rationals n/d extended with    *)
(* NaN, Infinity and -Infinity; the rounding of IEEE doubles and the sign  *)
(* of zero are not modelled.  null and undefined are values of their own.  *)
(***************************************************************************)
EXTENDS Integers, Sequences, FiniteSets

(***************************************************************************)
(* Bounds of the model.                                                    *)
(***************************************************************************)
\* Number of tracked stocks taken from the head of the tracked list.
NumStocks == 2
\* Number of poll cycles that are started in one run (initial call + ticks).
MaxCycles == 3
\* Number of timer ticks of the SEK converter in one run.
MaxPolls == 3
\* Number of entries of the longest log file the reducer is run on by itself.
MaxLogLen == 3

(***************************************************************************)
(* JavaScript values.                                                      *)
(***************************************************************************)
Undefined == [k |-> "undefined", n |-> 0, d |-> 1]
Null      == [k |-> "null", n |-> 0, d |-> 1]
NaN       == [k |-> "NaN", n |-> 0, d |-> 1]
PosInf    == [k |-> "Infinity", n |-> 1, d |-> 1]
NegInf    == [k |-> "Infinity", n |-> -1, d |-> 1]

RECURSIVE Gcd(_, _)
Gcd(a, b) == IF b = 0 THEN a ELSE Gcd(b, a % b)

AbsInt(x) == IF x < 0 THEN -x ELSE x

\* The rational n/d (d # 0) in lowest terms with a positive denominator.
Rat(n, d) ==
    LET g == Gcd(AbsInt(n), AbsInt(d))
        s == IF d < 0 THEN -1 ELSE 1
    IN  [k |-> "num", n |-> (s * n) \div g, d |-> (s * d) \div g]

Num(n) == Rat(n, 1)

IsFinite(v) == v.k = "num"
IsNaN(v)    == v.k = "NaN"
\* -1, 0 or 1 for a number that is not NaN.
Sign(v) == IF v.n > 0 THEN 1 ELSE IF v.n < 0 THEN -1 ELSE 0
Inf(s)  == IF s < 0 THEN NegInf ELSE PosInf

Neg(a) == IF a.k = "NaN" THEN NaN ELSE [a EXCEPT !.n = -a.n]

\* a + b
Add(a, b) ==
    IF IsNaN(a) \/ IsNaN(b) THEN NaN
    ELSE IF ~IsFinite(a) /\ ~IsFinite(b) THEN (IF a = b THEN a ELSE NaN)
    ELSE IF ~IsFinite(a) THEN a
    ELSE IF ~IsFinite(b) THEN b
    ELSE Rat(a.n * b.d + b.n * a.d, a.d * b.d)

\* a - b
Sub(a, b) == Add(a, Neg(b))

\* a * b
Mul(a, b) ==
    IF IsNaN(a) \/ IsNaN(b) THEN NaN
    ELSE IF ~IsFinite(a) \/ ~IsFinite(b)
         THEN (IF Sign(a) = 0 \/ Sign(b) = 0 THEN NaN ELSE Inf(Sign(a) * Sign(b)))
    ELSE Rat(a.n * b.n, a.d * b.d)

\* a / b (a zero divisor is +0)
Div(a, b) ==
    IF IsNaN(a) \/ IsNaN(b) THEN NaN
    ELSE IF ~IsFinite(a) /\ ~IsFinite(b) THEN NaN
    ELSE IF ~IsFinite(a) THEN Inf(Sign(a) * (IF Sign(b) < 0 THEN -1 ELSE 1))
    ELSE IF ~IsFinite(b) THEN Num(0)
    ELSE IF b.n = 0 THEN (IF a.n = 0 THEN NaN ELSE Inf(Sign(a)))
    ELSE Rat(a.n * b.d, a.d * b.n)

\* a < b (false when either side is NaN)
Lt(a, b) ==
    IF IsNaN(a) \/ IsNaN(b) THEN FALSE
    ELSE IF ~IsFinite(a) THEN a = NegInf /\ b # NegInf
    ELSE IF ~IsFinite(b) THEN b = PosInf
    ELSE a.n * b.d < b.n * a.d

\* a > b
Gt(a, b) == Lt(b, a)

\* a >= b
Ge(a, b) == Lt(b, a) \/ (~IsNaN(a) /\ a = b)

\* Math.abs(a)
Abs(a) == IF IsNaN(a) THEN NaN ELSE [a EXCEPT !.n = AbsInt(a.n)]


(***************************************************************************)
(* Start-price tracker with print threshold: static configuration.         *)
(***************************************************************************)
\* The tracked list of the program.
AllStocks == <<
    [company |-> "ATOSS SOFTWARE SE", symbol |-> "AOF.DE"],
    [company |-> "ENVAR", symbol |-> "ENVAR.ST"],
    [company |-> "Intel", symbol |-> "INTC"],
    [company |-> "INVISIO", symbol |-> "IVSO.ST"],
    [company |-> "Ovzon", symbol |-> "OVZON.ST"],
    [company |-> "Star Vault B", symbol |-> "STVA-B.ST"],
    [company |-> "Telenor", symbol |-> "TEL.OL"],
    [company |-> "SKF", symbol |-> "SKF-B.ST"],
    [company |-> "NASDAQ| Bitcoin Depot A", symbol |-> "BTC-USD"],
    [company |-> "Nvidia", symbol |-> "NVDA"],
    [company |-> "ASUS", symbol |-> "2357.TW"],
    [company |-> "Hexagon AB", symbol |-> "HEXA.ST"] >>

\* The tracked stocks of the model: the first NumStocks entries of the list.
stocks == SubSeq(AllStocks, 1, NumStocks)

Symbols == {stocks[i].symbol : i \in 1..Len(stocks)}

\* Print threshold in percent (0.05).
THRESHOLD == Rat(5, 100)

(***************************************************************************)
(* Quote source: what one call of yahooFinance.quote can produce.          *)
(***************************************************************************)
\* The call threw; fetchStockQuote returns null.
NullQuote == [isNull |-> TRUE, regularMarketPrice |-> Undefined, currency |-> ""]

\* A quote object; currency "" stands for a missing currency field.
QuoteOf(p, c) == [isNull |-> FALSE, regularMarketPrice |-> p, currency |-> c]

\* Prices the quote source reports for the first tracked stock.
Prices == {Num(0), Num(100), Num(110), NaN}

\* Prices the quote source reports for the other tracked stocks.
OtherPrices == {Num(50)}

\* Every outcome of one fetch of the stock at position index.
Quotes(index) ==
    IF index = 1
    THEN {NullQuote, QuoteOf(Undefined, "EUR")} \cup {QuoteOf(p, "EUR") : p \in Prices}
    ELSE {NullQuote} \cup {QuoteOf(p, "SEK") : p \in OtherPrices}

(***************************************************************************)
(* Number formatting and JSON.                                             *)
(***************************************************************************)
\* Number.prototype.toFixed(2): the number rounded to hundredths (half away from
\* zero on the exact value); NaN and the infinities print as themselves.
ToFixed2(v) ==
    IF ~IsFinite(v) THEN v
    ELSE LET a == AbsInt(v.n)
             h == (2 * 100 * a + v.d) \div (2 * v.d)
         IN  Rat(Sign(v) * h, 100)

\* JSON.stringify of a number or null: NaN and the infinities are written as null.
JsonNumber(v) == IF v.k = "num" THEN v ELSE Null

\* JSON.stringify of one StockRecord.
JsonRecord(r) ==
    [r EXCEPT !.price = JsonNumber(r.price), !.percentChange = JsonNumber(r.percentChange)]

\* JSON.stringify(dailyLog): the text, represented by the value it parses to.
JsonStringify(log) ==
    [i \in 1..Len(log) |->
        [timestamp |-> log[i].timestamp,
         stocks |-> [j \in 1..Len(log[i].stocks) |-> JsonRecord(log[i].stocks[j])]]]

(***************************************************************************)
(* Start-price tracker with print threshold: state.                        *)
(***************************************************************************)
VARIABLES
    dailyLog,       \* in-memory log: sequence of DailyLogEntry
    startPrices,    \* symbol -> start price, Undefined while not set
    isFirstUpdate,  \* TRUE until the first cycle has printed
    calls,          \* invocations of fetchAndPrintStockData suspended at Promise.all
    clock,          \* the wall clock, in timer periods
    frame,          \* the block printed by the last completed cycle
    writes,         \* fs.writeFile calls whose callback has not run yet, numbered
                    \* by the cycle completion that issued them
    logFile,        \* content of dailyLog.json on disk
    lastWrite       \* outcome of the writeFile callback that ran last

\* Termination: the SIGINT handler of the tracker and the dailySummary.ts child.
VARIABLES
    phase,          \* "running", then "summarizing" (child spawned), "unlinking"
                    \* (fs.unlink issued) and "exited"
    exitCode,       \* the argument of process.exit; read once phase = "exited"
    reducer,        \* the dailySummary.ts process
    summaryFile,    \* content of dailySummary.json on disk
    shutdownConsole,\* what the SIGINT handler reported last
    logAtSignal     \* history: dailyLog as it was when the SIGINT handler ran

shutdownVars == <<phase, exitCode, reducer, summaryFile, shutdownConsole, logAtSignal>>

\* The previous-price tracker (the first program of index.ts) keeps dailyLog and
\* the log file like the start-price tracker, and this map in place of
\* startPrices and isFirstUpdate.
VARIABLES
    previousPrices  \* symbol -> price of the last successful fetch, Undefined before

trackerVars ==
    <<dailyLog, startPrices, isFirstUpdate, calls, clock, frame, writes, logFile, lastWrite,
      shutdownVars, previousPrices>>

\* An invocation right after stocks.map(fetchStockQuote): every fetch pending.
NewCall(now) ==
    [timestamp |-> now,
     resolved |-> {},
     results |-> [i \in 1..Len(stocks) |-> NullQuote]]

\* The log file does not exist.
NoFile == [state |-> "absent", data |-> <<>>]

\* No block printed yet.
NoFrame == [timestamp |-> 0, rows |-> <<>>]

\* dailySummary.ts has not been started; code is read once pc = "exited".
NoReducer ==
    [pc |-> "none", input |-> NoFile, summary |-> <<>>, code |-> 0, report |-> ""]

TrackerInit ==
    /\ dailyLog = <<>>
    /\ startPrices = [s \in Symbols |-> Undefined]
    /\ isFirstUpdate = TRUE
    /\ clock = 1
    /\ calls = {NewCall(1)}
    /\ frame = NoFrame
    /\ writes = {}
    /\ logFile = NoFile
    /\ lastWrite = "none"
    /\ phase = "running"
    /\ exitCode = 0
    /\ reducer = NoReducer
    /\ summaryFile = NoFile
    /\ shutdownConsole = ""
    /\ logAtSignal = <<>>
    /\ previousPrices = [s \in Symbols |-> Undefined]

(***************************************************************************)
(* One iteration of results.forEach in fetchAndPrintStockData.             *)
(***************************************************************************)
\* The guard of the quote: a quote object with a regularMarketPrice.
HasPrice(quote) == ~quote.isNull /\ quote.regularMarketPrice # Undefined

\* Variant of RecordStartPrice: the start price follows every priced quote.
RecordStartPriceOverwrite(sp, index, quote) ==
    LET sym == stocks[index].symbol
    IN  IF HasPrice(quote)
        THEN [sp EXCEPT ![sym] = quote.regularMarketPrice]
        ELSE sp

\* startPrices after the iteration for the stock at position index.
RecordStartPrice(sp, index, quote) ==
    LET sym == stocks[index].symbol
    IN  IF HasPrice(quote) /\ sp[sym] = Undefined
        THEN [sp EXCEPT ![sym] = quote.regularMarketPrice]
        ELSE sp

\* Variant of PercentChange: the change is taken relative to the current price.
PercentChangeOfCurrent(price, initialPrice) ==
    Mul(Div(Sub(price, initialPrice), price), Num(100))

\* ((price - initialPrice) / initialPrice) * 100
PercentChange(price, initialPrice) ==
    Mul(Div(Sub(price, initialPrice), initialPrice), Num(100))

\* The StockRecord built by the iteration; sp is startPrices before it.
BuildRecord(sp, index, quote) ==
    LET stock == stocks[index]
        sp1   == RecordStartPrice(sp, index, quote)
    IN  [company |-> stock.company,
         symbol |-> stock.symbol,
         price |-> IF HasPrice(quote) THEN quote.regularMarketPrice ELSE Null,
         currency |-> IF HasPrice(quote) THEN quote.currency ELSE "",
         percentChange |->
            IF HasPrice(quote)
            THEN PercentChange(quote.regularMarketPrice, sp1[stock.symbol])
            ELSE Null]

\* The chalk colour of percentChangeStr; "plain" is the uncoloured "N/A".
PercentColor(percentChange) ==
    IF percentChange = Null THEN "plain"
    ELSE IF Gt(percentChange, Num(0)) THEN "green"
    ELSE IF Lt(percentChange, Num(0)) THEN "red"
    ELSE "white"

\* Variant of ShouldPrint: a change of exactly the threshold is not printed.
ShouldPrintStrict(first, percentChange) ==
    first \/ (percentChange # Null /\ Gt(Abs(percentChange), THRESHOLD))

\* isFirstUpdate || (percentChange !== null && Math.abs(percentChange) >= THRESHOLD)
ShouldPrint(first, percentChange) ==
    first \/ (percentChange # Null /\ Ge(Abs(percentChange), THRESHOLD))

\* The two printed lines of one stock; sp is startPrices after the iteration.
BuildRow(sp, record) ==
    [symbol |-> record.symbol,
     startPrice |-> IF sp[record.symbol] # Undefined THEN ToFixed2(sp[record.symbol]) ELSE Null,
     current |-> IF record.price # Null THEN ToFixed2(record.price) ELSE Null,
     change |-> IF record.percentChange # Null THEN ToFixed2(record.percentChange) ELSE Null,
     color |-> PercentColor(record.percentChange)]

\* Variant of ForEachResult: the loop ends at the first quote without a price.
RECURSIVE ForEachResultStops(_, _, _, _)
ForEachResultStops(acc, results, index, first) ==
    IF index > Len(results) \/ ~HasPrice(results[index]) THEN acc
    ELSE LET record == BuildRecord(acc.startPrices, index, results[index])
             sp1    == RecordStartPrice(acc.startPrices, index, results[index])
             next   == [startPrices |-> sp1,
                        recordEntries |-> Append(acc.recordEntries, record),
                        rowsToPrint |->
                            IF ShouldPrint(first, record.percentChange)
                            THEN Append(acc.rowsToPrint, BuildRow(sp1, record))
                            ELSE acc.rowsToPrint]
         IN  ForEachResultStops(next, results, index + 1, first)

\* results.forEach from position index on; acc carries startPrices, recordEntries
\* and rowsToPrint.
RECURSIVE ForEachResult(_, _, _, _)
ForEachResult(acc, results, index, first) ==
    IF index > Len(results) THEN acc
    ELSE LET record == BuildRecord(acc.startPrices, index, results[index])
             sp1    == RecordStartPrice(acc.startPrices, index, results[index])
             next   == [startPrices |-> sp1,
                        recordEntries |-> Append(acc.recordEntries, record),
                        rowsToPrint |->
                            IF ShouldPrint(first, record.percentChange)
                            THEN Append(acc.rowsToPrint, BuildRow(sp1, record))
                            ELSE acc.rowsToPrint]
         IN  ForEachResult(next, results, index + 1, first)

(***************************************************************************)
(* Daily summary reducer (dailySummary.ts): the statistics of a parsed log. *)
(***************************************************************************)
\* The empty string of minTime and maxTime; timestamps of cycles start at 1.
EmptyTime == 0

\* Position of symbol in the statistics (in insertion order), 0 when absent.
StatsIndex(statsMap, symbol) ==
    IF \E i \in 1..Len(statsMap) : statsMap[i].symbol = symbol
    THEN CHOOSE i \in 1..Len(statsMap) : statsMap[i].symbol = symbol
    ELSE 0

\* Variant of UpdateStats: a record without a price still counts for
\* the average of a symbol that is already known.
UpdateStatsCountsNull(statsMap, timestamp, stock) ==
    IF stock.price = Null /\ StatsIndex(statsMap, stock.symbol) = 0 THEN statsMap
    ELSE LET known == StatsIndex(statsMap, stock.symbol)
             map1  == IF known = 0
                      THEN Append(statsMap,
                               [company |-> stock.company, symbol |-> stock.symbol,
                                sum |-> Num(0), count |-> 0,
                                min |-> PosInf, minTime |-> EmptyTime,
                                max |-> NegInf, maxTime |-> EmptyTime])
                      ELSE statsMap
             i     == StatsIndex(map1, stock.symbol)
             s     == map1[i]
             isMin == Lt(stock.price, s.min)
             isMax == Gt(stock.price, s.max)
         IN  IF stock.price = Null THEN [map1 EXCEPT ![i] = [s EXCEPT !.count = s.count + 1]] ELSE
             [map1 EXCEPT ![i] =
                 [s EXCEPT !.sum = Add(s.sum, stock.price),
                           !.count = s.count + 1,
                           !.min = IF isMin THEN stock.price ELSE s.min,
                           !.minTime = IF isMin THEN timestamp ELSE s.minTime,
                           !.max = IF isMax THEN stock.price ELSE s.max,
                           !.maxTime = IF isMax THEN timestamp ELSE s.maxTime]]

\* Variant of UpdateStats: the statistics of a symbol are set up before the
\* price is tested.
UpdateStatsInitFirst(statsMap, timestamp, stock) ==
    IF FALSE THEN statsMap
    ELSE LET known == StatsIndex(statsMap, stock.symbol)
             map1  == IF known = 0
                      THEN Append(statsMap,
                               [company |-> stock.company, symbol |-> stock.symbol,
                                sum |-> Num(0), count |-> 0,
                                min |-> PosInf, minTime |-> EmptyTime,
                                max |-> NegInf, maxTime |-> EmptyTime])
                      ELSE statsMap
             i     == StatsIndex(map1, stock.symbol)
             s     == map1[i]
             isMin == Lt(stock.price, s.min)
             isMax == Gt(stock.price, s.max)
         IN  IF stock.price = Null THEN map1 ELSE
             [map1 EXCEPT ![i] =
                 [s EXCEPT !.sum = Add(s.sum, stock.price),
                           !.count = s.count + 1,
                           !.min = IF isMin THEN stock.price ELSE s.min,
                           !.minTime = IF isMin THEN timestamp ELSE s.minTime,
                           !.max = IF isMax THEN stock.price ELSE s.max,
                           !.maxTime = IF isMax THEN timestamp ELSE s.maxTime]]

\* Variant of UpdateStats: a price equal to the extreme counts as a new
\* extreme.
UpdateStatsTiesMove(statsMap, timestamp, stock) ==
    IF stock.price = Null THEN statsMap
    ELSE LET known == StatsIndex(statsMap, stock.symbol)
             map1  == IF known = 0
                      THEN Append(statsMap,
                               [company |-> stock.company, symbol |-> stock.symbol,
                                sum |-> Num(0), count |-> 0,
                                min |-> PosInf, minTime |-> EmptyTime,
                                max |-> NegInf, maxTime |-> EmptyTime])
                      ELSE statsMap
             i     == StatsIndex(map1, stock.symbol)
             s     == map1[i]
             isMin == Ge(s.min, stock.price)
             isMax == Ge(stock.price, s.max)
         IN  
             [map1 EXCEPT ![i] =
                 [s EXCEPT !.sum = Add(s.sum, stock.price),
                           !.count = s.count + 1,
                           !.min = IF isMin THEN stock.price ELSE s.min,
                           !.minTime = IF isMin THEN timestamp ELSE s.minTime,
                           !.max = IF isMax THEN stock.price ELSE s.max,
                           !.maxTime = IF isMax THEN timestamp ELSE s.maxTime]]

\* Body of entry.stocks.forEach for one stock record.
UpdateStats(statsMap, timestamp, stock) ==
    IF stock.price = Null THEN statsMap
    ELSE LET known == StatsIndex(statsMap, stock.symbol)
             map1  == IF known = 0
                      THEN Append(statsMap,
                               [company |-> stock.company, symbol |-> stock.symbol,
                                sum |-> Num(0), count |-> 0,
                                min |-> PosInf, minTime |-> EmptyTime,
                                max |-> NegInf, maxTime |-> EmptyTime])
                      ELSE statsMap
             i     == StatsIndex(map1, stock.symbol)
             s     == map1[i]
             isMin == Lt(stock.price, s.min)
             isMax == Gt(stock.price, s.max)
         IN  [map1 EXCEPT ![i] =
                 [s EXCEPT !.sum = Add(s.sum, stock.price),
                           !.count = s.count + 1,
                           !.min = IF isMin THEN stock.price ELSE s.min,
                           !.minTime = IF isMin THEN timestamp ELSE s.minTime,
                           !.max = IF isMax THEN stock.price ELSE s.max,
                           !.maxTime = IF isMax THEN timestamp ELSE s.maxTime]]

\* entry.stocks.forEach from position j on.
RECURSIVE ForEachStock(_, _, _, _)
ForEachStock(statsMap, timestamp, entryStocks, j) ==
    IF j > Len(entryStocks) THEN statsMap
    ELSE ForEachStock(UpdateStats(statsMap, timestamp, entryStocks[j]),
                      timestamp, entryStocks, j + 1)

\* dailyLog.forEach from position i on.
RECURSIVE ForEachEntry(_, _, _)
ForEachEntry(statsMap, log, i) ==
    IF i > Len(log) THEN statsMap
    ELSE ForEachEntry(ForEachStock(statsMap, log[i].timestamp, log[i].stocks, 1), log, i + 1)

\* statsMap after the whole log.
StatsMap(log) == ForEachEntry(<<>>, log, 1)

\* One element of finalSummary.
SummaryEntry(s) ==
    [company |-> s.company,
     symbol |-> s.symbol,
     averagePrice |-> IF s.count > 0 THEN Div(s.sum, Num(s.count)) ELSE Num(0),
     minPrice |-> IF s.min = PosInf THEN Null ELSE s.min,
     minTime |-> s.minTime,
     maxPrice |-> IF s.max = NegInf THEN Null ELSE s.max,
     maxTime |-> s.maxTime]

\* finalSummary for a parsed log, in the order of Object.values(statsMap).
FinalSummary(log) ==
    LET statsMap == StatsMap(log)
    IN  [i \in 1..Len(statsMap) |-> SummaryEntry(statsMap[i])]


(***************************************************************************)
(* SEK converter (unnamed/part_001): parsing of the API's number strings.  *)
(***************************************************************************)
\* A string is a sequence of one-character strings.
DigitChars == <<"0", "1", "2", "3", "4", "5", "6", "7", "8", "9">>

IsDigit(c) == \E i \in 1..10 : DigitChars[i] = c

DigitValue(c) == (CHOOSE i \in 1..10 : DigitChars[i] = c) - 1

InfinityText == <<"I", "n", "f", "i", "n", "i", "t", "y">>

\* Number of leading digits of text from position i on.
RECURSIVE DigitRun(_, _)
DigitRun(text, i) ==
    IF i <= Len(text) /\ IsDigit(text[i]) THEN 1 + DigitRun(text, i + 1) ELSE 0

\* Value of the digits text[i .. i + len - 1] read as a decimal integer.
RECURSIVE DigitsValue(_, _, _)
DigitsValue(text, i, len) ==
    IF len = 0 THEN 0
    ELSE 10 * DigitsValue(text, i, len - 1) + DigitValue(text[i + len - 1])

RECURSIVE Pow10(_)
Pow10(e) == IF e = 0 THEN 1 ELSE 10 * Pow10(e - 1)

\* Number of leading blanks of text from position i on.
RECURSIVE BlankRun(_, _)
BlankRun(text, i) ==
    IF i <= Len(text) /\ text[i] = " " THEN 1 + BlankRun(text, i + 1) ELSE 0

\* parseFloat of a string: leading blanks, an optional sign, then "Infinity" or
\* the longest decimal literal (exponents are not modelled); NaN when no number
\* starts the string.
ParseFloat(text) ==
         LET b     == 1 + BlankRun(text, 1)
             neg   == b <= Len(text) /\ text[b] = "-"
             pos   == b <= Len(text) /\ text[b] = "+"
             s     == IF neg \/ pos THEN b + 1 ELSE b
             sgn   == IF neg THEN -1 ELSE 1
             ints  == DigitRun(text, s)
             dot   == s + ints <= Len(text) /\ text[s + ints] = "."
             fracs == IF dot THEN DigitRun(text, s + ints + 1) ELSE 0
         IN  IF s + 7 <= Len(text) /\ SubSeq(text, s, s + 7) = InfinityText THEN Inf(sgn)
             ELSE IF ints + fracs = 0 THEN NaN
             ELSE Rat(sgn * (DigitsValue(text, s, ints) * Pow10(fracs)
                             + DigitsValue(text, s + ints + 1, fracs)),
                      Pow10(fracs))

(***************************************************************************)
(* SEK converter: the Twelve Data API.                                     *)
(***************************************************************************)
\* axios.get rejected.
TransportError == [failed |-> TRUE, hasText |-> FALSE, text |-> <<>>, currency |-> ""]

\* A response body; text is the close (quote) or price (conversion) field.
Response(text, currency) ==
    [failed |-> FALSE, hasText |-> TRUE, text |-> text, currency |-> currency]

\* A response body without that field (an error body of the API).
ErrorBody == [failed |-> FALSE, hasText |-> FALSE, text |-> <<>>, currency |-> ""]

\* parseFloat(res.data.close) and parseFloat(res.data.price); parseFloat(undefined)
\* is NaN.
ParseField(response) == IF response.hasText THEN ParseFloat(response.text) ELSE NaN

\* Number strings the API sends in the model.
CloseTexts == {<<"2", "0">>, <<"1", "2", ".", "5">>, InfinityText, <<"N", "/", "A">>}

RateTexts == {<<"1", "0">>, <<"1", "0", ".", "5">>, <<>>}

QuoteResponses ==
    {TransportError, ErrorBody} \cup
    {Response(t, c) : t \in CloseTexts, c \in {"SEK", "USD"}}

PriceResponses ==
    {TransportError, ErrorBody} \cup {Response(t, "") : t \in RateTexts}

\* What fetchStockPrice returns for a response; NoData is its null.
NoData == [price |-> Null, currency |-> ""]

FetchStockPrice(response) ==
    IF response.failed THEN NoData
    ELSE LET price == ParseField(response)
         IN  IF IsNaN(price) THEN NoData
             ELSE [price |-> price, currency |-> response.currency]

\* What fetchConversionRate returns for a response.
FetchConversionRate(response) ==
    IF response.failed THEN Null
    ELSE LET conversionRate == ParseField(response)
         IN  IF IsNaN(conversionRate) THEN Null ELSE conversionRate

(***************************************************************************)
(* SEK converter: state.                                                   *)
(***************************************************************************)
VARIABLES
    totalPriceSek,  \* running total of the SEK prices
    pollCount,      \* number of updates applied
    prevPriceSek,   \* SEK price of the previous update, Null before the first
    rows,           \* the rendered rows, oldest first
    polls,          \* invocations of trackPrice suspended at an await
    sekClock,       \* number of timer ticks so far
    sekConsole,     \* what the invocation of trackPrice that ended last reported
    sekHeader,      \* the running average printed above the table, Null before
    apiKey,         \* process.env.API_KEY || ""
    sekPhase,       \* "start" (module code up to the key check), "running" (timer
                    \* set) or "exited"
    sekExitCode     \* the argument of process.exit; read once sekPhase = "exited"

sekVars ==
    <<totalPriceSek, pollCount, prevPriceSek, rows, polls, sekClock, sekConsole,
      sekHeader, apiKey, sekPhase, sekExitCode>>

\* Values of the API_KEY entry of the environment: unset or empty, and set.
ApiKeys == {"", "demo"}

SekInit ==
    /\ apiKey \in ApiKeys
    /\ sekPhase = "start"
    /\ sekExitCode = 0
    /\ sekHeader = Null
    /\ totalPriceSek = Num(0)
    /\ pollCount = 0
    /\ prevPriceSek = Null
    /\ rows = <<>>
    /\ polls = {}
    /\ sekClock = 0
    /\ sekConsole = ""

\* The chalk colour formatRow picks from change.
RowColor(change) ==
    IF Gt(change, Num(0)) THEN "green"
    ELSE IF Lt(change, Num(0)) THEN "red"
    ELSE "white"

FormatRow(nowStr, sek, change, changePercent) ==
    [time |-> nowStr,
     sek |-> ToFixed2(sek),
     change |-> ToFixed2(change),
     changePercent |-> ToFixed2(changePercent),
     color |-> RowColor(change)]

\* Variant of ApplyUpdate: the total is overwritten with the new price.
ApplyUpdateOverwrites(priceSek) ==
    LET change == IF prevPriceSek # Null THEN Sub(priceSek, prevPriceSek) ELSE Num(0)
        changePercent ==
            IF prevPriceSek # Null THEN Mul(Div(change, prevPriceSek), Num(100)) ELSE Num(0)
    IN  /\ totalPriceSek' = priceSek
        /\ pollCount' = pollCount + 1
        /\ prevPriceSek' = priceSek
        /\ rows' = Append(rows, FormatRow(sekClock, priceSek, change, changePercent))
        /\ sekConsole' = "Running Average (SEK)"
        /\ sekHeader' = ToFixed2(Div(priceSek, Num(pollCount + 1)))

\* trackPrice from "totalPriceSek += priceSek" to its end; the table is printed
\* under the header with the running average.
ApplyUpdate(priceSek) ==
    LET change == IF prevPriceSek # Null THEN Sub(priceSek, prevPriceSek) ELSE Num(0)
        changePercent ==
            IF prevPriceSek # Null THEN Mul(Div(change, prevPriceSek), Num(100)) ELSE Num(0)
    IN  /\ totalPriceSek' = Add(totalPriceSek, priceSek)
        /\ pollCount' = pollCount + 1
        /\ prevPriceSek' = priceSek
        /\ rows' = Append(rows, FormatRow(sekClock, priceSek, change, changePercent))
        /\ sekConsole' = "Running Average (SEK)"
        /\ sekHeader' = ToFixed2(Div(Add(totalPriceSek, priceSek), Num(pollCount + 1)))


(***************************************************************************)
(* SEK converter: actions.                                                 *)
(***************************************************************************)
\* The converter while it is not run: the module code has not started.
SekNotRun == SekInit /\ apiKey = ""

\* Variant of SekStartup: a missing API key is reported and the timer is set
\* all the same.
SekStartupWarnsOnly ==
    /\ sekPhase = "start"
    /\ sekPhase' = "running"
    /\ sekConsole' = IF apiKey = "" THEN "API_KEY is missing in .env file."
                     ELSE "Tracking SKF B every 15 seconds..."
    /\ UNCHANGED <<totalPriceSek, pollCount, prevPriceSek, rows, polls, sekClock, sekHeader,
                   apiKey, sekExitCode>>
    /\ UNCHANGED trackerVars

\* The module code from its top to setInterval(trackPrice, 15_000): without an
\* API key it logs the error and calls process.exit(1) right after reading the
\* environment; with one it falls through to the timer.
SekStartup ==
    /\ sekPhase = "start"
    /\ IF apiKey = ""
       THEN /\ sekPhase' = "exited"
            /\ sekExitCode' = 1
            /\ sekConsole' = "API_KEY is missing in .env file."
       ELSE /\ sekPhase' = "running"
            /\ sekConsole' = "Tracking SKF B every 15 seconds..."
            /\ UNCHANGED sekExitCode
    /\ UNCHANGED <<totalPriceSek, pollCount, prevPriceSek, rows, polls, sekClock, sekHeader,
                   apiKey>>
    /\ UNCHANGED trackerVars

\* setInterval fires: trackPrice starts and suspends at fetchStockPrice().
SekTick ==
    /\ sekPhase = "running"
    /\ sekClock < MaxPolls
    /\ sekClock' = sekClock + 1
    /\ polls' = polls \cup {[id |-> sekClock + 1, stage |-> "quote", stockData |-> NoData]}
    /\ UNCHANGED <<totalPriceSek, pollCount, prevPriceSek, rows, sekConsole, sekHeader>>
    /\ UNCHANGED <<apiKey, sekPhase, sekExitCode>>
    /\ UNCHANGED trackerVars

\* fetchStockPrice of invocation p settles.  trackPrice returns on null, goes on
\* to fetchConversionRate when the currency is not SEK, and applies the update
\* otherwise.
StockPriceSettles(p, response) ==
    /\ p \in polls
    /\ p.stage = "quote"
    /\ LET stockData == FetchStockPrice(response)
       IN  IF stockData = NoData
           THEN /\ polls' = polls \ {p}
                /\ sekConsole' = "Skipping update due to invalid stock data."
                /\ UNCHANGED <<totalPriceSek, pollCount, prevPriceSek, rows, sekHeader>>
           ELSE IF stockData.currency # "SEK"
           THEN /\ polls' = (polls \ {p}) \cup
                            {[p EXCEPT !.stage = "rate", !.stockData = stockData]}
                /\ UNCHANGED <<totalPriceSek, pollCount, prevPriceSek, rows, sekConsole, sekHeader>>
           ELSE /\ polls' = polls \ {p}
                /\ ApplyUpdate(stockData.price)
    /\ UNCHANGED <<sekClock, apiKey, sekPhase, sekExitCode>>
    /\ UNCHANGED trackerVars

\* Variant of ConversionRateSettles: a poll without a rate still counts.
ConversionRateSettlesCounts(p, response) ==
    /\ p \in polls
    /\ p.stage = "rate"
    /\ polls' = polls \ {p}
    /\ LET rate == FetchConversionRate(response)
       IN  IF rate = Null
           THEN /\ sekConsole' = "Skipping update due to missing conversion rate."
                /\ pollCount' = pollCount + 1
                /\ UNCHANGED <<totalPriceSek, prevPriceSek, rows, sekHeader>>
           ELSE ApplyUpdate(Mul(p.stockData.price, rate))
    /\ UNCHANGED <<sekClock, apiKey, sekPhase, sekExitCode>>
    /\ UNCHANGED trackerVars

\* fetchConversionRate of invocation p settles.
ConversionRateSettles(p, response) ==
    /\ p \in polls
    /\ p.stage = "rate"
    /\ polls' = polls \ {p}
    /\ LET rate == FetchConversionRate(response)
       IN  IF rate = Null
           THEN /\ sekConsole' = "Skipping update due to missing conversion rate."
                /\ UNCHANGED <<totalPriceSek, pollCount, prevPriceSek, rows, sekHeader>>
           ELSE ApplyUpdate(Mul(p.stockData.price, rate))
    /\ UNCHANGED <<sekClock, apiKey, sekPhase, sekExitCode>>
    /\ UNCHANGED trackerVars


(***************************************************************************)
(* Start-price tracker: actions.                                           *)
(***************************************************************************)
\* setInterval fires: a new invocation starts and suspends at Promise.all.  The
\* timer does not look at invocations still in flight.  limit bounds the run.
StartCycle(limit) ==
    /\ phase = "running"
    /\ clock < limit
    /\ clock' = clock + 1
    /\ calls' = calls \cup {NewCall(clock + 1)}
    /\ UNCHANGED <<dailyLog, startPrices, isFirstUpdate, frame, writes, logFile, lastWrite>>
    /\ UNCHANGED shutdownVars
    /\ UNCHANGED previousPrices
    /\ UNCHANGED sekVars

Tick == StartCycle(MaxCycles)

\* One fetchStockQuote of invocation c settles with quote.
FetchSettles(c, index, quote) ==
    /\ phase # "exited"
    /\ c \in calls
    /\ index \notin c.resolved
    /\ calls' = (calls \ {c}) \cup
                {[c EXCEPT !.resolved = @ \cup {index}, !.results[index] = quote]}
    /\ UNCHANGED <<dailyLog, startPrices, isFirstUpdate, clock, frame, writes, logFile, lastWrite>>
    /\ UNCHANGED shutdownVars
    /\ UNCHANGED previousPrices
    /\ UNCHANGED sekVars

\* Variant of AllSettled: the invocation goes on when its first fetch settles.
AnySettled(c) == c.resolved # {}

\* Promise.all(promises) of invocation c is fulfilled: every fetch has settled.
AllSettled(c) == c.resolved = 1..Len(stocks)

\* Variant of Push: the log keeps the latest entry only.
PushReplace(log, logEntry) == <<logEntry>>

\* dailyLog.push(logEntry)
Push(log, logEntry) == Append(log, logEntry)

\* Promise.all of invocation c is fulfilled: the rest of fetchAndPrintStockData
\* runs to its end, updateDailyLogFile included.
CycleCompletes(c) ==
    /\ phase # "exited"
    /\ c \in calls
    /\ AllSettled(c)
    /\ LET out == ForEachResult(
                      [startPrices |-> startPrices, recordEntries |-> <<>>, rowsToPrint |-> <<>>],
                      c.results, 1, isFirstUpdate)
           logEntry == [timestamp |-> c.timestamp, stocks |-> out.recordEntries]
       IN  /\ startPrices' = out.startPrices
           /\ dailyLog' = Push(dailyLog, logEntry)
           /\ writes' = writes \cup {[seq |-> clock - Cardinality(calls) + 1,
                                      data |-> JsonStringify(Push(dailyLog, logEntry))]}
           /\ frame' = [timestamp |-> c.timestamp, rows |-> out.rowsToPrint]
    /\ isFirstUpdate' = FALSE
    /\ calls' = calls \ {c}
    /\ UNCHANGED <<clock, logFile, lastWrite>>
    /\ UNCHANGED shutdownVars
    /\ UNCHANGED previousPrices
    /\ UNCHANGED sekVars

\* Variant of WriteFileDone: a failed write takes the newest entry back out of the
\* in-memory log.
WriteFileDoneRollsBack(w, outcome) ==
    /\ phase # "exited"
    /\ w \in writes
    /\ writes' = writes \ {w}
    /\ lastWrite' = IF outcome = "ok" THEN "ok" ELSE "error"
    /\ logFile' = CASE outcome = "ok" -> [state |-> "json", data |-> w.data]
                    [] outcome = "untouched" -> logFile
                    [] outcome = "truncated" -> [state |-> "partial", data |-> <<>>]
    /\ dailyLog' = IF outcome = "ok" THEN dailyLog ELSE SubSeq(dailyLog, 1, Len(dailyLog) - 1)
    /\ UNCHANGED <<startPrices, isFirstUpdate, calls, clock, frame>>
    /\ UNCHANGED shutdownVars
    /\ UNCHANGED previousPrices
    /\ UNCHANGED sekVars

\* The callback of one outstanding fs.writeFile runs.  On success the file holds
\* the text passed to that call; on error it is untouched or left truncated.
WriteFileDone(w, outcome) ==
    /\ phase # "exited"
    /\ w \in writes
    /\ writes' = writes \ {w}
    /\ lastWrite' = IF outcome = "ok" THEN "ok" ELSE "error"
    /\ logFile' = CASE outcome = "ok" -> [state |-> "json", data |-> w.data]
                    [] outcome = "untouched" -> logFile
                    [] outcome = "truncated" -> [state |-> "partial", data |-> <<>>]
    /\ UNCHANGED <<dailyLog, startPrices, isFirstUpdate, calls, clock, frame>>
    /\ UNCHANGED shutdownVars
    /\ UNCHANGED previousPrices
    /\ UNCHANGED sekVars

(***************************************************************************)
(* Daily summary reducer (dailySummary.ts): the process.                   *)
(***************************************************************************)
\* Variant of ParseLog: a file that cannot be read as a log counts as an empty log.
ParseLogLenient(file) ==
    IF file.state = "json"
    THEN [threw |-> FALSE, log |-> file.data]
    ELSE [threw |-> FALSE, log |-> <<>>]

\* JSON.parse(data) followed by the traversal of the value, as far as they can
\* throw inside the try block.  A file in state "json" holds an array of log
\* entries.  "partial" is text that is not JSON (JSON.parse throws), "notArray"
\* is JSON that is not an array (dailyLog.forEach is not a function) and
\* "noStocks" is an array with an element without a stocks array
\* (entry.stocks.forEach throws).
ParseLog(file) ==
    IF file.state = "json"
    THEN [threw |-> FALSE, log |-> file.data]
    ELSE [threw |-> TRUE, log |-> <<>>]

\* JSON.stringify(finalSummary): the text, represented by the value it parses to.
JsonSummary(summary) ==
    [i \in 1..Len(summary) |->
        [summary[i] EXCEPT !.averagePrice = JsonNumber(@),
                           !.minPrice = JsonNumber(@),
                           !.maxPrice = JsonNumber(@)]]

\* The child right after its start: fs.readFile(dailyLogPath) is pending.
StartedReducer == [NoReducer EXCEPT !.pc = "reading"]

\* process.exit(code) of the child after it reported report.
ReducerExit(r, code, report) == [r EXCEPT !.pc = "exited", !.code = code, !.report = report]

\* The callback of fs.readFile runs.  On error the child exits with 1.  Otherwise
\* data is the content of the log file (a read that overlaps a write of the
\* tracker can see the file truncated); a throw inside try ends the child with
\* 1, and else fs.writeFile of the summary is issued.
ReadFileDone(outcome) ==
    /\ reducer.pc = "reading"
    /\ outcome = "ok" => logFile.state # "absent"
    /\ outcome = "torn" => (writes # {} /\ phase # "exited")
    /\ LET data   == IF outcome = "torn" THEN [state |-> "partial", data |-> <<>>] ELSE logFile
           parsed == ParseLog(data)
       IN  reducer' =
               IF outcome = "error"
               THEN ReducerExit(reducer, 1, "Error reading daily log file:")
               ELSE IF parsed.threw
               THEN ReducerExit([reducer EXCEPT !.input = data], 1,
                                "Error parsing daily log JSON:")
               ELSE [reducer EXCEPT !.pc = "writing", !.input = data,
                                    !.summary = FinalSummary(parsed.log)]
    /\ UNCHANGED <<dailyLog, startPrices, isFirstUpdate, calls, clock, frame, writes,
                   logFile, lastWrite>>
    /\ UNCHANGED <<phase, exitCode, summaryFile, shutdownConsole, logAtSignal>>
    /\ UNCHANGED previousPrices
    /\ UNCHANGED sekVars

\* The callback of fs.writeFile(dailySummaryPath) runs: the child exits with 1 on
\* error and with 0 after printing the summary.
SummaryWriteDone(outcome) ==
    /\ reducer.pc = "writing"
    /\ summaryFile' =
           CASE outcome = "ok" -> [state |-> "json", data |-> JsonSummary(reducer.summary)]
             [] outcome = "untouched" -> summaryFile
             [] outcome = "truncated" -> [state |-> "partial", data |-> <<>>]
    /\ reducer' =
           IF outcome = "ok"
           THEN ReducerExit(reducer, 0, "Daily summary written to")
           ELSE ReducerExit(reducer, 1, "Error writing daily summary file:")
    /\ UNCHANGED <<dailyLog, startPrices, isFirstUpdate, calls, clock, frame, writes,
                   logFile, lastWrite>>
    /\ UNCHANGED <<phase, exitCode, shutdownConsole, logAtSignal>>
    /\ UNCHANGED previousPrices
    /\ UNCHANGED sekVars

(***************************************************************************)
(* Start-price tracker: termination.  The handler is followed for the      *)
(* first SIGINT the process receives.                                      *)
(***************************************************************************)
\* The SIGINT handler: clearInterval(updateInterval), then dailySummary.ts is
\* spawned.  Invocations in flight and outstanding writes go on.
Sigint ==
    /\ phase = "running"
    /\ phase' = "summarizing"
    /\ reducer' = StartedReducer
    /\ shutdownConsole' = "Terminating... Spawning dailySummary.ts"
    /\ UNCHANGED <<dailyLog, startPrices, isFirstUpdate, calls, clock, frame, writes,
                   logFile, lastWrite>>
    /\ logAtSignal' = dailyLog
    /\ UNCHANGED <<exitCode, summaryFile>>
    /\ UNCHANGED previousPrices
    /\ UNCHANGED sekVars

\* Variant of ExitEvent: the listener runs as soon as the child has been spawned.
ExitEventAtSpawn == reducer.pc # "none"

\* The "exit" event of summaryProcess: the child has exited.
ExitEvent == reducer.pc = "exited"

\* The listener of "exit" runs: fs.unlink(dailyLogPath) is issued.
SummaryProcessExit ==
    /\ phase = "summarizing"
    /\ ExitEvent
    /\ phase' = "unlinking"
    /\ UNCHANGED <<dailyLog, startPrices, isFirstUpdate, calls, clock, frame, writes,
                   logFile, lastWrite>>
    /\ UNCHANGED <<exitCode, reducer, summaryFile, shutdownConsole, logAtSignal>>
    /\ UNCHANGED previousPrices
    /\ UNCHANGED sekVars

\* Variant of ExitCodeAfterUnlink: a failed unlink makes the exit code 1.
ExitCodeUnlinkFatal(code, outcome) == IF outcome = "ok" THEN code ELSE 1

\* The argument of process.exit in the callback of fs.unlink; code is the exit
\* code of the child.
ExitCodeAfterUnlink(code, outcome) == code

\* The callback of fs.unlink runs and the process exits with the child's code.
\* What is still in flight then (invocations, writes) is abandoned.
UnlinkDone(outcome) ==
    /\ phase = "unlinking"
    /\ outcome = "ok" => logFile.state # "absent"
    /\ logFile' = IF outcome = "ok" THEN NoFile ELSE logFile
    /\ shutdownConsole' = IF outcome = "ok" THEN "Old daily log file deleted."
                          ELSE "Error deleting daily log file:"
    /\ phase' = "exited"
    /\ exitCode' = ExitCodeAfterUnlink(reducer.code, outcome)
    /\ UNCHANGED <<dailyLog, startPrices, isFirstUpdate, calls, clock, frame, writes, lastWrite>>
    /\ UNCHANGED <<reducer, summaryFile, logAtSignal>>
    /\ UNCHANGED previousPrices
    /\ UNCHANGED sekVars

vars == <<trackerVars, sekVars>>

Init == TrackerInit /\ SekNotRun

\* The start-price tracker.
Next ==
    \/ Tick
    \/ \E c \in calls : \E index \in 1..Len(stocks) : \E quote \in Quotes(index) :
           FetchSettles(c, index, quote)
    \/ \E c \in calls : CycleCompletes(c)
    \/ \E w \in writes : \E outcome \in {"ok", "untouched", "truncated"} :
           WriteFileDone(w, outcome)

Spec == Init /\ [][Next]_vars

\* The quotes of the scenario "100, then 110, then the fetch fails, then 90" for
\* the first tracked stock, by cycle.
Scenario ==
    <<QuoteOf(Num(100), "EUR"), QuoteOf(Num(110), "EUR"), NullQuote, QuoteOf(Num(90), "EUR")>>

\* The timer in the scenario: every cycle ends within the period.
ScenarioTick == calls = {} /\ StartCycle(Len(Scenario))

ScenarioQuotes(c, index) == IF index = 1 THEN {Scenario[c.timestamp]} ELSE Quotes(index)

\* The start-price tracker fed with the scenario, cycle after cycle.
ScenarioNext ==
    \/ ScenarioTick
    \/ \E c \in calls : \E index \in 1..Len(stocks) : \E quote \in ScenarioQuotes(c, index) :
           FetchSettles(c, index, quote)
    \/ \E c \in calls : CycleCompletes(c)
    \/ \E w \in writes : \E outcome \in {"ok", "untouched", "truncated"} :
           WriteFileDone(w, outcome)

SpecScenario == Init /\ [][ScenarioNext]_vars

\* Quotes around the print threshold: from a start price of 2000, the price 2001
\* is a change of exactly 0.05 percent (also in IEEE doubles) and 2002 one of 0.1.
ThresholdQuotes(index) ==
    IF index = 1
    THEN {NullQuote} \cup {QuoteOf(Num(p), "EUR") : p \in {2000, 2001, 2002}}
    ELSE {QuoteOf(Num(50), "SEK")}

\* The start-price tracker fed with prices around the print threshold.
ThresholdNext ==
    \/ Tick
    \/ \E c \in calls : \E index \in 1..Len(stocks) : \E quote \in ThresholdQuotes(index) :
           FetchSettles(c, index, quote)
    \/ \E c \in calls : CycleCompletes(c)
    \/ \E w \in writes : \E outcome \in {"ok", "untouched", "truncated"} :
           WriteFileDone(w, outcome)

SpecThreshold == Init /\ [][ThresholdNext]_vars

\* Quotes of the runs that end with a termination signal.
ShutdownQuotes(index) ==
    IF index = 1 THEN {NullQuote, QuoteOf(Num(100), "EUR")} ELSE {QuoteOf(Num(50), "SEK")}

\* The start-price tracker from its start to its exit after SIGINT.
ShutdownNext ==
    \/ Tick
    \/ \E c \in calls : \E index \in 1..Len(stocks) : \E quote \in ShutdownQuotes(index) :
           FetchSettles(c, index, quote)
    \/ \E c \in calls : CycleCompletes(c)
    \/ \E w \in writes : \E outcome \in {"ok", "untouched", "truncated"} :
           WriteFileDone(w, outcome)
    \/ Sigint
    \/ \E outcome \in {"ok", "error", "torn"} : ReadFileDone(outcome)
    \/ \E outcome \in {"ok", "untouched", "truncated"} : SummaryWriteDone(outcome)
    \/ SummaryProcessExit
    \/ \E outcome \in {"ok", "error"} : UnlinkDone(outcome)

SpecShutdown == Init /\ [][ShutdownNext]_vars

\* Prices in the log files the reducer is run on by itself, by position of
\* the stock.
FilePrices(index) ==
    IF index = 1 THEN {Null, Num(100), Num(110)} ELSE {Null, Num(50)}

\* The stocks arrays of one entry of such a file; n is the number of stocks.
FileStocks(n) ==
    {[i \in 1..n |->
         [company |-> stocks[i].company, symbol |-> stocks[i].symbol, price |-> f[i],
          currency |-> "", percentChange |-> Null]] :
     f \in {g \in [1..n -> UNION {FilePrices(i) : i \in 1..n}] :
                \A i \in 1..n : g[i] \in FilePrices(i)}}

\* The logs of n entries; the timestamp of an entry is its position.
LogsOfLen(n) ==
    {[k \in 1..n |-> [timestamp |-> k, stocks |-> f[k]]] : f \in [1..n -> FileStocks(Len(stocks))]}

\* The files dailySummary.ts is started on: none, a log of up to maxLen entries,
\* or a file that is not a log (see ParseLog).
LogFiles(maxLen) ==
    {NoFile} \cup
    {[state |-> st, data |-> <<>>] : st \in {"partial", "notArray", "noStocks"}} \cup
    {[state |-> "json", data |-> log] : log \in UNION {LogsOfLen(n) : n \in 0..maxLen}}

\* dailySummary.ts started by itself on a file; no tracker is running.
ReducerInit ==
    /\ dailyLog = <<>>
    /\ startPrices = [s \in Symbols |-> Undefined]
    /\ isFirstUpdate = TRUE
    /\ clock = 0
    /\ calls = {}
    /\ frame = NoFrame
    /\ writes = {}
    /\ logFile \in LogFiles(MaxLogLen)
    /\ lastWrite = "none"
    /\ phase = "exited"
    /\ exitCode = 0
    /\ reducer = StartedReducer
    /\ summaryFile = NoFile
    /\ shutdownConsole = ""
    /\ logAtSignal = <<>>
    /\ previousPrices = [s \in Symbols |-> Undefined]
    /\ SekNotRun

ReducerNext ==
    \/ \E outcome \in {"ok", "error"} : ReadFileDone(outcome)
    \/ \E outcome \in {"ok", "untouched", "truncated"} : SummaryWriteDone(outcome)

SpecReducer == ReducerInit /\ [][ReducerNext]_vars

\* The SEK converter.
SekNext ==
    \/ SekStartup
    \/ SekTick
    \/ \E p \in polls : \E response \in QuoteResponses : StockPriceSettles(p, response)
    \/ \E p \in polls : \E response \in PriceResponses : ConversionRateSettles(p, response)

\* The converter at the top of its module, with or without an API key; no tracker
\* has done anything.
ConverterInit == TrackerInit /\ SekInit

SpecSek == ConverterInit /\ [][SekNext]_vars

(***************************************************************************)
(* All-stocks display (display_stocks.ts).  Its state is that of the       *)
(* start-price tracker: displayLog is held in dailyLog, the file           *)
(* displayLog.json in logFile; isFirstUpdate is not used.  Records are     *)
(* built as in the start-price tracker (BuildRecord).                      *)
(***************************************************************************)
\* The text "N/A" in a cell that otherwise shows a number.
NotAvailable == [k |-> "N/A", n |-> 0, d |-> 1]

\* Variant of ColoredPercent: zero is coloured like a gain.
ColoredPercentZeroGreen(percentChange) ==
    IF percentChange # Null
    THEN IF Ge(percentChange, Num(0)) THEN "green"
         ELSE IF Lt(percentChange, Num(0)) THEN "red"
         ELSE "white"
    ELSE "white"

\* The chalk colour of coloredPercent.
ColoredPercent(percentChange) ==
    IF percentChange # Null
    THEN IF Gt(percentChange, Num(0)) THEN "green"
         ELSE IF Lt(percentChange, Num(0)) THEN "red"
         ELSE "white"
    ELSE "white"

\* initialPriceString(symbol), without the padding; sp is startPrices.
InitialPriceString(sp, symbol) ==
    IF sp[symbol] # Undefined THEN ToFixed2(sp[symbol]) ELSE NotAvailable

\* The row of one stock; sp is startPrices after the iteration.
DisplayRow(sp, record) ==
    [symbol |-> record.symbol,
     startPrice |-> InitialPriceString(sp, record.symbol),
     current |-> IF record.price # Null THEN ToFixed2(record.price) ELSE NotAvailable,
     change |-> IF record.percentChange # Null THEN ToFixed2(record.percentChange)
                ELSE NotAvailable,
     color |-> ColoredPercent(record.percentChange)]

\* Variant of ForEachDisplayResult: a stock without a price gets no row.
RECURSIVE ForEachDisplayResultSkips(_, _, _)
ForEachDisplayResultSkips(acc, results, index) ==
    IF index > Len(results) THEN acc
    ELSE LET record == BuildRecord(acc.startPrices, index, results[index])
             sp1    == RecordStartPrice(acc.startPrices, index, results[index])
             next   == [startPrices |-> sp1,
                        recordEntries |-> Append(acc.recordEntries, record),
                        rowsToPrint |->
                            IF record.price # Null
                            THEN Append(acc.rowsToPrint, DisplayRow(sp1, record))
                            ELSE acc.rowsToPrint]
         IN  ForEachDisplayResultSkips(next, results, index + 1)

\* results.forEach of fetchAndDisplayStockData from position index on: every
\* stock gets a record and a row.
RECURSIVE ForEachDisplayResult(_, _, _)
ForEachDisplayResult(acc, results, index) ==
    IF index > Len(results) THEN acc
    ELSE LET record == BuildRecord(acc.startPrices, index, results[index])
             sp1    == RecordStartPrice(acc.startPrices, index, results[index])
             next   == [startPrices |-> sp1,
                        recordEntries |-> Append(acc.recordEntries, record),
                        rowsToPrint |-> Append(acc.rowsToPrint, DisplayRow(sp1, record))]
         IN  ForEachDisplayResult(next, results, index + 1)

\* Promise.all of invocation c of fetchAndDisplayStockData is fulfilled: the
\* rest of the function runs to its end, updateDisplayLogFile included.
DisplayCycleCompletes(c) ==
    /\ phase # "exited"
    /\ c \in calls
    /\ AllSettled(c)
    /\ LET out == ForEachDisplayResult(
                      [startPrices |-> startPrices, recordEntries |-> <<>>, rowsToPrint |-> <<>>],
                      c.results, 1)
           logEntry == [timestamp |-> c.timestamp, stocks |-> out.recordEntries]
       IN  /\ startPrices' = out.startPrices
           /\ dailyLog' = Push(dailyLog, logEntry)
           /\ writes' = writes \cup {[seq |-> clock - Cardinality(calls) + 1,
                                      data |-> JsonStringify(Push(dailyLog, logEntry))]}
           /\ frame' = [timestamp |-> c.timestamp, rows |-> out.rowsToPrint]
    /\ calls' = calls \ {c}
    /\ UNCHANGED <<isFirstUpdate, clock, logFile, lastWrite>>
    /\ UNCHANGED shutdownVars
    /\ UNCHANGED previousPrices
    /\ UNCHANGED sekVars

\* The SIGINT handler of the display: clearInterval, then process.exit(0).
DisplaySigint ==
    /\ phase = "running"
    /\ phase' = "exited"
    /\ exitCode' = 0
    /\ shutdownConsole' = "Terminating display..."
    /\ UNCHANGED <<dailyLog, startPrices, isFirstUpdate, calls, clock, frame, writes,
                   logFile, lastWrite>>
    /\ UNCHANGED <<reducer, summaryFile, logAtSignal>>
    /\ UNCHANGED previousPrices
    /\ UNCHANGED sekVars

\* Quotes fed to the display: the first stock fails, holds, rises or falls.
DisplayQuotes(index) ==
    IF index = 1
    THEN {NullQuote, QuoteOf(Num(100), "EUR"), QuoteOf(Num(110), "EUR")}
    ELSE {QuoteOf(Num(50), "SEK")}

\* The all-stocks display from its start to its exit.
DisplayNext ==
    \/ Tick
    \/ \E c \in calls : \E index \in 1..Len(stocks) : \E quote \in DisplayQuotes(index) :
           FetchSettles(c, index, quote)
    \/ \E c \in calls : DisplayCycleCompletes(c)
    \/ \E w \in writes : \E outcome \in {"ok", "untouched", "truncated"} :
           WriteFileDone(w, outcome)
    \/ DisplaySigint

SpecDisplay == Init /\ [][DisplayNext]_vars

(***************************************************************************)
(* Previous-price tracker (the first program of index.ts).  It shares      *)
(* dailyLog, the log file and the timer with the start-price tracker and   *)
(* keeps previousPrices in place of startPrices and isFirstUpdate.         *)
(***************************************************************************)
\* a === b for two values of the model; NaN is not equal to itself.
StrictEquals(a, b) == ~IsNaN(a) /\ ~IsNaN(b) /\ a = b

\* percentChange for a price when a previous price oldPrice exists.
ChangeFromPrevious(price, oldPrice) ==
    IF ~StrictEquals(price, oldPrice)
    THEN Mul(Div(Sub(price, oldPrice), oldPrice), Num(100))
    ELSE Num(0)

\* Variant of SavePreviousPrice: a failed fetch forgets the previous price.
SavePreviousPriceForgets(pp, index, quote) ==
    LET sym == stocks[index].symbol
    IN  IF HasPrice(quote)
        THEN [pp EXCEPT ![sym] = quote.regularMarketPrice]
        ELSE [pp EXCEPT ![sym] = Undefined]

\* previousPrices after the iteration for the stock at position index.
SavePreviousPrice(pp, index, quote) ==
    LET sym == stocks[index].symbol
    IN  IF HasPrice(quote)
        THEN [pp EXCEPT ![sym] = quote.regularMarketPrice]
        ELSE pp

\* The StockRecord built by the iteration; pp is previousPrices before it.
BuildChangeRecord(pp, index, quote) ==
    LET stock == stocks[index]
    IN  [company |-> stock.company,
         symbol |-> stock.symbol,
         price |-> IF HasPrice(quote) THEN quote.regularMarketPrice ELSE Null,
         currency |-> IF HasPrice(quote) THEN quote.currency ELSE "",
         percentChange |->
            IF HasPrice(quote) /\ pp[stock.symbol] # Undefined
            THEN ChangeFromPrevious(quote.regularMarketPrice, pp[stock.symbol])
            ELSE Null]

\* shouldPrint, evaluated after previousPrices was saved: pp is previousPrices
\* after the iteration.
ShouldPrintRow(pp, record) ==
    IF StrictEquals(pp[record.symbol], record.price)
    THEN IF StrictEquals(record.percentChange, Num(0)) /\ pp[record.symbol] # Undefined
         THEN FALSE
         ELSE TRUE
    ELSE TRUE

\* The printed row of one stock.
ChangeRow(record) ==
    [symbol |-> record.symbol,
     current |-> IF record.price # Null THEN ToFixed2(record.price) ELSE NotAvailable,
     currency |-> record.currency,
     change |-> IF record.percentChange # Null THEN ToFixed2(record.percentChange)
                ELSE NotAvailable,
     color |-> PercentColor(record.percentChange)]

\* results.forEach of the previous-price tracker from position index on; acc
\* carries previousPrices, recordEntries and rowsToPrint.
RECURSIVE ForEachChangeResult(_, _, _)
ForEachChangeResult(acc, results, index) ==
    IF index > Len(results) THEN acc
    ELSE LET record == BuildChangeRecord(acc.previousPrices, index, results[index])
             pp1    == SavePreviousPrice(acc.previousPrices, index, results[index])
             next   == [previousPrices |-> pp1,
                        recordEntries |-> Append(acc.recordEntries, record),
                        rowsToPrint |->
                            IF ShouldPrintRow(pp1, record)
                            THEN Append(acc.rowsToPrint, ChangeRow(record))
                            ELSE acc.rowsToPrint]
         IN  ForEachChangeResult(next, results, index + 1)

\* Promise.all of invocation c of the previous-price tracker is fulfilled: the
\* rest of fetchAndPrintStockData runs to its end, updateDailyLogFile included.
\* A block without rows stands for "No price changes since last update."
ChangeCycleCompletes(c) ==
    /\ phase # "exited"
    /\ c \in calls
    /\ AllSettled(c)
    /\ LET out == ForEachChangeResult(
                      [previousPrices |-> previousPrices, recordEntries |-> <<>>,
                       rowsToPrint |-> <<>>],
                      c.results, 1)
           logEntry == [timestamp |-> c.timestamp, stocks |-> out.recordEntries]
       IN  /\ previousPrices' = out.previousPrices
           /\ dailyLog' = Push(dailyLog, logEntry)
           /\ writes' = writes \cup {[seq |-> clock - Cardinality(calls) + 1,
                                      data |-> JsonStringify(Push(dailyLog, logEntry))]}
           /\ frame' = [timestamp |-> c.timestamp, rows |-> out.rowsToPrint]
    /\ calls' = calls \ {c}
    /\ UNCHANGED <<startPrices, isFirstUpdate, clock, logFile, lastWrite>>
    /\ UNCHANGED shutdownVars
    /\ UNCHANGED sekVars

\* Quotes fed to the previous-price tracker: the first stock fails or is quoted
\* at 0, 100 or 110.
ChangeQuotes(index) ==
    IF index = 1
    THEN {NullQuote} \cup {QuoteOf(Num(p), "EUR") : p \in {0, 100, 110}}
    ELSE {QuoteOf(Num(50), "SEK")}

\* The previous-price tracker.
ChangeNext ==
    \/ Tick
    \/ \E c \in calls : \E index \in 1..Len(stocks) : \E quote \in ChangeQuotes(index) :
           FetchSettles(c, index, quote)
    \/ \E c \in calls : ChangeCycleCompletes(c)
    \/ \E w \in writes : \E outcome \in {"ok", "untouched", "truncated"} :
           WriteFileDone(w, outcome)

SpecChange == Init /\ [][ChangeNext]_vars

(***************************************************************************)
(* Standalone reducer (part_005, daily_log.json to display_data.json).     *)
(* It runs by itself; logFile is daily_log.json, summaryFile is            *)
(* display_data.json and reducer is the process.  The callback of          *)
(* fs.readFile is that of dailySummary.ts (ReadFileDone): for the prices a *)
(* JSON file can hold, the added test !isNaN(stock.price) changes nothing. *)
(***************************************************************************)
\* The process at the top of the module, before fs.existsSync(dailyLogPath).
StandaloneInit ==
    /\ dailyLog = <<>>
    /\ startPrices = [s \in Symbols |-> Undefined]
    /\ isFirstUpdate = TRUE
    /\ clock = 0
    /\ calls = {}
    /\ frame = NoFrame
    /\ writes = {}
    /\ logFile \in LogFiles(MaxLogLen)
    /\ lastWrite = "none"
    /\ phase = "exited"
    /\ exitCode = 0
    /\ reducer = [NoReducer EXCEPT !.pc = "start"]
    /\ summaryFile = NoFile
    /\ shutdownConsole = ""
    /\ logAtSignal = <<>>
    /\ previousPrices = [s \in Symbols |-> Undefined]
    /\ SekNotRun

\* The module code: without a log file the process exits with 1, otherwise
\* fs.readFile is issued.
StandaloneStart ==
    /\ reducer.pc = "start"
    /\ reducer' = IF logFile.state = "absent"
                  THEN ReducerExit(reducer, 1, "Daily log file not found at")
                  ELSE [reducer EXCEPT !.pc = "reading"]
    /\ UNCHANGED <<dailyLog, startPrices, isFirstUpdate, calls, clock, frame, writes,
                   logFile, lastWrite>>
    /\ UNCHANGED <<phase, exitCode, summaryFile, shutdownConsole, logAtSignal>>
    /\ UNCHANGED previousPrices
    /\ UNCHANGED sekVars

\* Variant of StandaloneWriteDone: the log is unlinked after a failed write of
\* the summary too.
StandaloneWriteDoneUnlinksAnyway(outcome) ==
    /\ reducer.pc = "writing"
    /\ summaryFile' =
           CASE outcome = "ok" -> [state |-> "json", data |-> JsonSummary(reducer.summary)]
             [] outcome = "untouched" -> summaryFile
             [] outcome = "truncated" -> [state |-> "partial", data |-> <<>>]
    /\ reducer' =
           IF outcome = "ok"
           THEN [reducer EXCEPT !.pc = "unlinking", !.report = "Daily summary written to"]
           ELSE [reducer EXCEPT !.pc = "unlinking",
                                !.report = "Error writing daily summary file:"]
    /\ UNCHANGED <<dailyLog, startPrices, isFirstUpdate, calls, clock, frame, writes,
                   logFile, lastWrite>>
    /\ UNCHANGED <<phase, exitCode, shutdownConsole, logAtSignal>>
    /\ UNCHANGED previousPrices
    /\ UNCHANGED sekVars

\* The callback of fs.writeFile(dailySummaryPath) runs: on error the process
\* exits with 1; otherwise it prints the summary and issues fs.unlink of the log.
StandaloneWriteDone(outcome) ==
    /\ reducer.pc = "writing"
    /\ summaryFile' =
           CASE outcome = "ok" -> [state |-> "json", data |-> JsonSummary(reducer.summary)]
             [] outcome = "untouched" -> summaryFile
             [] outcome = "truncated" -> [state |-> "partial", data |-> <<>>]
    /\ reducer' =
           IF outcome = "ok"
           THEN [reducer EXCEPT !.pc = "unlinking", !.report = "Daily summary written to"]
           ELSE ReducerExit(reducer, 1, "Error writing daily summary file:")
    /\ UNCHANGED <<dailyLog, startPrices, isFirstUpdate, calls, clock, frame, writes,
                   logFile, lastWrite>>
    /\ UNCHANGED <<phase, exitCode, shutdownConsole, logAtSignal>>
    /\ UNCHANGED previousPrices
    /\ UNCHANGED sekVars

\* The callback of fs.unlink(dailyLogPath) runs: the outcome is reported and the
\* process exits with 0.
StandaloneUnlinkDone(outcome) ==
    /\ reducer.pc = "unlinking"
    /\ outcome = "ok" => logFile.state # "absent"
    /\ logFile' = IF outcome = "ok" THEN NoFile ELSE logFile
    /\ reducer' = ReducerExit(reducer, 0,
                              IF outcome = "ok" THEN "Old daily log file deleted."
                              ELSE "Error deleting daily log file:")
    /\ UNCHANGED <<dailyLog, startPrices, isFirstUpdate, calls, clock, frame, writes, lastWrite>>
    /\ UNCHANGED <<phase, exitCode, summaryFile, shutdownConsole, logAtSignal>>
    /\ UNCHANGED previousPrices
    /\ UNCHANGED sekVars

\* The standalone reducer run on a file.
StandaloneNext ==
    \/ StandaloneStart
    \/ \E outcome \in {"ok", "error"} : ReadFileDone(outcome)
    \/ \E outcome \in {"ok", "untouched", "truncated"} : StandaloneWriteDone(outcome)
    \/ \E outcome \in {"ok", "error"} : StandaloneUnlinkDone(outcome)

SpecStandalone == StandaloneInit /\ [][StandaloneNext]_vars

(***************************************************************************)
(* Properties of the start-price tracker.                                  *)
(***************************************************************************)
\* The record of the stock at position index in entry k of a log.
RecordAt(log, k, index) == log[k].stocks[index]

\* The price of the first entry of log that has a price for the stock at
\* position index; Undefined when no entry has one.
FirstLoggedPrice(log, index) ==
    IF \E k \in 1..Len(log) : RecordAt(log, k, index).price # Null
    THEN LET first == CHOOSE k \in 1..Len(log) :
                          /\ RecordAt(log, k, index).price # Null
                          /\ \A j \in 1..(k - 1) : RecordAt(log, j, index).price = Null
         IN  RecordAt(log, first, index).price
    ELSE Undefined

\* C1: the start price of a symbol is the price of the first fetch of that symbol
\* that came back with a price, in the order in which the tracker processed the
\* results (the order of the daily log), and no later step changes it, whatever
\* the outcome of the fetches of that or any other symbol.
C1_StartPriceIsFirstPrice ==
    [][\A i \in 1..Len(stocks) :
          LET sym == stocks[i].symbol
          IN  /\ startPrices[sym] # Undefined => startPrices'[sym] = startPrices[sym]
              /\ startPrices'[sym] = FirstLoggedPrice(dailyLog', i)]_vars

\* A start price of 100 that survived a failed fetch and a later price of 110.
C1_Witness ==
    /\ Len(dailyLog) = 3
    /\ RecordAt(dailyLog, 1, 1).price = Num(100)
    /\ RecordAt(dailyLog, 2, 1).price = Null
    /\ RecordAt(dailyLog, 3, 1).price = Num(110)
    /\ startPrices[stocks[1].symbol] = Num(100)

\* C2: for every logged record that has a price, percentChange is null exactly
\* when the start price of the symbol is absent or zero, and otherwise equals
\* (price - start price) / start price * 100.
C2_PercentChangeNullIffNoBaseline ==
    \A k \in 1..Len(dailyLog) : \A i \in 1..Len(stocks) :
        LET r == RecordAt(dailyLog, k, i)
            baseline == startPrices[r.symbol]
        IN  r.price # Null =>
                IF baseline = Undefined \/ baseline = Num(0)
                THEN r.percentChange = Null
                ELSE /\ r.percentChange # Null
                     /\ r.percentChange = Mul(Div(Sub(r.price, baseline), baseline), Num(100))

\* The (price, percentChange) pairs the scenario expects, by cycle.
ScenarioRecords ==
    << <<Num(100), Num(0)>>, <<Num(110), Num(10)>>, <<Null, Null>>, <<Num(90), Num(-10)>> >>

\* The summary entries of the first tracked stock in the summary of the log as
\* written to the file.
ScenarioSummary ==
    LET summary == FinalSummary(JsonStringify(dailyLog))
    IN  {summary[i] : i \in {j \in 1..Len(summary) : summary[j].symbol = stocks[1].symbol}}

\* C3: with the first stock fetched at 100, 110, failure, 90 in four consecutive
\* cycles, its start price is 100 after every cycle, its logged records are
\* (100, 0), (110, 10), (null, null), (90, -10), and the summary of the log has
\* for it min 90 at the timestamp of cycle 4, max 110 at the timestamp of cycle 2
\* and average 100.
C3_Scenario ==
    /\ Len(dailyLog) <= Len(ScenarioRecords)
    /\ \A k \in 1..Len(dailyLog) :
          /\ dailyLog[k].timestamp = k
          /\ RecordAt(dailyLog, k, 1).price = ScenarioRecords[k][1]
          /\ RecordAt(dailyLog, k, 1).percentChange = ScenarioRecords[k][2]
    /\ Len(dailyLog) >= 1 => startPrices[stocks[1].symbol] = Num(100)
    /\ Len(dailyLog) = 4 =>
          /\ Cardinality(ScenarioSummary) = 1
          /\ \A e \in ScenarioSummary :
                /\ e.minPrice = Num(90) /\ e.minTime = 4
                /\ e.maxPrice = Num(110) /\ e.maxTime = 2
                /\ e.averagePrice = Num(100)

\* The fourth cycle of the scenario has been logged.
C3_Witness ==
    /\ Len(dailyLog) = 4
    /\ RecordAt(dailyLog, 4, 1).price = Num(90)
    /\ RecordAt(dailyLog, 3, 1).price = Null

\* C4: at most one invocation of the poll cycle is in flight at any time.
C4_NoOverlap == Cardinality(calls) <= 1

\* C5: every completed invocation appends exactly one entry to the daily log and
\* leaves the earlier entries as they were, so the log has as many entries as
\* invocations have completed (started minus still in flight).
C5_OneEntryPerCycle ==
    [][/\ Len(dailyLog') = clock' - Cardinality(calls')
       /\ Len(dailyLog') >= Len(dailyLog)
       /\ SubSeq(dailyLog', 1, Len(dailyLog)) = dailyLog
       /\ Cardinality(calls') < Cardinality(calls) => Len(dailyLog') = Len(dailyLog) + 1]_vars

\* Three cycles logged: all fetches failed, one failed, none failed.
C5_Witness ==
    /\ Len(dailyLog) = 3
    /\ \A i \in 1..Len(stocks) : RecordAt(dailyLog, 1, i).price = Null
    /\ RecordAt(dailyLog, 2, 1).price = Null /\ RecordAt(dailyLog, 2, 2).price # Null
    /\ \A i \in 1..Len(stocks) : RecordAt(dailyLog, 3, i).price # Null

\* C6: the daily log and the printed block change only in the step in which an
\* invocation all of whose fetches have settled goes on; that step appends one
\* entry with the invocation's timestamp and the outcome of each of its fetches,
\* and every entry of the log holds one record per tracked stock, in tracked
\* order.
C6_OnlyCompleteCyclesLogged ==
    [][/\ (dailyLog' # dailyLog \/ frame' # frame) =>
              \E c \in calls :
                  /\ c.resolved = 1..Len(stocks)
                  /\ c \notin calls'
                  /\ Len(dailyLog') = Len(dailyLog) + 1
                  /\ SubSeq(dailyLog', 1, Len(dailyLog)) = dailyLog
                  /\ dailyLog'[Len(dailyLog')].timestamp = c.timestamp
                  /\ frame'.timestamp = c.timestamp
                  /\ \A i \in 1..Len(stocks) :
                        RecordAt(dailyLog', Len(dailyLog'), i).price =
                            IF HasPrice(c.results[i]) THEN c.results[i].regularMarketPrice
                            ELSE Null
       /\ \A k \in 1..Len(dailyLog') :
              /\ Len(dailyLog'[k].stocks) = Len(stocks)
              /\ \A i \in 1..Len(stocks) :
                    /\ RecordAt(dailyLog', k, i).symbol = stocks[i].symbol
                    /\ RecordAt(dailyLog', k, i).company = stocks[i].company]_vars

\* An entry logged while a later invocation still waits for a fetch.
C6_Witness ==
    /\ Len(dailyLog) = 1
    /\ \E c \in calls : c.resolved # {} /\ c.resolved # 1..Len(stocks)

\* C7: when an invocation goes on with a fetch that brought no price (the call
\* failed or the quote has no price), the record of that symbol in the new entry
\* has price null and percentChange null and the symbol's start price is as
\* before, and the record of every other symbol is the one computed from its own
\* quote and start price alone.
C7_FailureIsLocal ==
    [][\A c \in calls :
          (c.resolved = 1..Len(stocks) /\ c \notin calls') =>
              /\ Len(dailyLog') = Len(dailyLog) + 1
              /\ Len(dailyLog'[Len(dailyLog')].stocks) = Len(stocks)
              /\ \A i \in 1..Len(stocks) :
                    LET r == RecordAt(dailyLog', Len(dailyLog'), i)
                    IN  IF ~HasPrice(c.results[i])
                        THEN /\ r.price = Null
                             /\ r.percentChange = Null
                             /\ startPrices'[stocks[i].symbol] = startPrices[stocks[i].symbol]
                        ELSE r = BuildRecord(startPrices, i, c.results[i])]_vars

\* A cycle in which the first stock, whose start price is 100, failed and the
\* second stock was priced.
C7_Witness ==
    /\ Len(dailyLog) >= 2
    /\ RecordAt(dailyLog, 1, 1).price = Num(100)
    /\ RecordAt(dailyLog, 2, 1).price = Null
    /\ RecordAt(dailyLog, 2, 1).percentChange = Null
    /\ RecordAt(dailyLog, 2, 2).price = Num(50)
    /\ startPrices[stocks[1].symbol] = Num(100)

\* C8: a price that is not a finite number is treated as a failed fetch: no
\* logged record carries it and no start price is set from it.
C8_NonFinitePriceIsFailure ==
    /\ \A k \in 1..Len(dailyLog) : \A i \in 1..Len(stocks) :
          RecordAt(dailyLog, k, i).price = Null \/ IsFinite(RecordAt(dailyLog, k, i).price)
    /\ \A s \in Symbols : startPrices[s] = Undefined \/ IsFinite(startPrices[s])

\* C10: whenever no write of the log is outstanding and the write that finished
\* last succeeded, the log file holds the whole in-memory daily log.
C10_FileEqualsLog ==
    (writes = {} /\ lastWrite = "ok") =>
        logFile = [state |-> "json", data |-> JsonStringify(dailyLog)]

(***************************************************************************)
(* Properties of the SEK converter.                                        *)
(***************************************************************************)
\* C9: the step in which the conversion-rate fetch of a poll fails (its quote
\* fetch had succeeded with a currency other than SEK) leaves totalPriceSek,
\* pollCount, prevPriceSek and the rendered rows as they were.
C9_MissingRateSkipsUpdate ==
    [][\A p \in polls :
          (/\ p.stage = "rate"
           /\ p \notin polls'
           /\ sekConsole' = "Skipping update due to missing conversion rate.") =>
              UNCHANGED <<totalPriceSek, pollCount, prevPriceSek, rows>>]_vars

\* An update was skipped for a missing rate after an earlier update was applied.
C9_Witness ==
    /\ sekConsole = "Skipping update due to missing conversion rate."
    /\ pollCount >= 1
    /\ Len(rows) = pollCount
    /\ prevPriceSek # Null


(***************************************************************************)
(* Properties of persistence and termination.                              *)
(***************************************************************************)
\* C11: the step in which a write of the log fails leaves the in-memory daily
\* log, the start prices, the invocations in flight, the timer and the phase of
\* the process as they were, and every write that is issued carries the whole
\* in-memory daily log of that moment, entry by entry, whatever became of the
\* writes before it.
C11_FailedWriteKeepsLog ==
    [][/\ (Cardinality(writes') < Cardinality(writes) /\ lastWrite' = "error") =>
              UNCHANGED <<dailyLog, startPrices, isFirstUpdate, calls, clock, phase>>
       /\ \A w \in writes' \ writes :
              /\ Len(w.data) = Len(dailyLog')
              /\ \A k \in 1..Len(dailyLog') :
                    /\ w.data[k].timestamp = dailyLog'[k].timestamp
                    /\ \A i \in 1..Len(stocks) :
                          w.data[k].stocks[i].price = RecordAt(dailyLog', k, i).price]_vars

\* The write of the first cycle failed and left the file truncated; the write of
\* the second cycle is outstanding and carries both entries.
C11_Witness ==
    /\ phase = "running"
    /\ lastWrite = "error"
    /\ logFile.state = "partial"
    /\ Len(dailyLog) = 2
    /\ \E w \in writes : w.seq = 2 /\ Len(w.data) = 2 /\ w.data[1].timestamp = 1
    /\ Cardinality(writes) = 1


\* C12: once the process has exited, no write of the log and no write of the
\* summary is outstanding.
C12_NoExitWithWriteOutstanding ==
    phase = "exited" => (writes = {} /\ reducer.pc # "writing")

\* The timestamps of the invocations in a set of calls.
Timestamps(cs) == {c.timestamp : c \in cs}

\* C13: from the signal on no invocation starts; the process goes from running to
\* summarizing (the reducer is started on the log file), from there to unlinking
\* and from there to exited, in this order; fs.unlink is issued only when the
\* reducer has exited, and the log file is deleted only by the step that ends
\* the unlink, never while the reducer reads or writes.
C13_ShutdownOrder ==
    [][/\ phase # "running" => (clock' = clock /\ Timestamps(calls') \subseteq Timestamps(calls))
       /\ phase' # phase =>
              \/ phase = "running" /\ phase' = "summarizing" /\ reducer'.pc = "reading"
              \/ phase = "summarizing" /\ phase' = "unlinking" /\ reducer.pc = "exited"
              \/ phase = "unlinking" /\ phase' = "exited" /\ reducer.pc = "exited"
       /\ (reducer.pc = "reading" /\ reducer'.pc = "writing") =>
              (reducer'.input = logFile \/ reducer'.input.state = "partial")
       /\ (logFile.state # "absent" /\ logFile'.state = "absent") =>
              (phase = "unlinking" /\ phase' = "exited" /\ reducer.pc = "exited")
       /\ reducer.pc \in {"reading", "writing"} =>
              (logFile.state # "absent" => logFile'.state # "absent")]_vars

\* The signal came before the last tick; the reducer ran on a log of one entry
\* and wrote the summary, the log file was deleted and the process has exited.
C13_Witness ==
    /\ phase = "exited"
    /\ clock < MaxCycles
    /\ reducer.pc = "exited"
    /\ Len(reducer.input.data) = 1
    /\ summaryFile.state = "json"
    /\ logFile.state = "absent"
    /\ shutdownConsole = "Old daily log file deleted."

\* C14: the log file is deleted only after a reducer run that succeeded (exit code
\* 0); after a run that failed the file stays.
C14_DeleteOnlyAfterSuccess ==
    [][(logFile.state # "absent" /\ logFile'.state = "absent") =>
           (reducer.pc = "exited" /\ reducer.code = 0)]_vars

\* The reports of a reducer run that failed.
ReducerErrors ==
    {"Error reading daily log file:", "Error parsing daily log JSON:",
     "Error writing daily summary file:"}

\* C15: once the process has exited after the signal, its exit code is 0 exactly
\* when the reducer reported the summary written and the summary file holds that
\* summary, and it is 1 when the reducer reported a read, parse or write error,
\* whether the log file was deleted or not.
C15_ExitCodeIsReducerOutcome ==
    phase = "exited" =>
        /\ exitCode \in {0, 1}
        /\ exitCode = 0 <=>
               /\ reducer.report = "Daily summary written to"
               /\ summaryFile = [state |-> "json", data |-> JsonSummary(reducer.summary)]
        /\ exitCode = 1 <=> reducer.report \in ReducerErrors

\* The summary was written, the unlink of the log failed and the process exited
\* with code 0.
C15_Witness ==
    /\ phase = "exited"
    /\ exitCode = 0
    /\ shutdownConsole = "Error deleting daily log file:"
    /\ logFile.state = "json"
    /\ summaryFile.state = "json"
    /\ Len(summaryFile.data) >= 1


(***************************************************************************)
(* Properties of the daily summary reducer.                                *)
(***************************************************************************)
\* The log the reducer read, once the summary file has been written from it.
SummarizedLog == reducer.input.data

\* The positions <<entry, record>> of log at which symbol has a price.
PricedAt(log, symbol) ==
    {<<k, j>> \in (1..Len(log)) \X (1..Len(stocks)) :
        log[k].stocks[j].symbol = symbol /\ log[k].stocks[j].price # Null}

\* The sum of the prices of log at a set of positions.
RECURSIVE SumAt(_, _)
SumAt(log, positions) ==
    IF positions = {} THEN Num(0)
    ELSE LET p == CHOOSE q \in positions : TRUE
         IN  Add(log[p[1]].stocks[p[2]].price, SumAt(log, positions \ {p}))

\* The entries of the written summary for symbol.
EntriesOf(symbol) ==
    {i \in 1..Len(summaryFile.data) : summaryFile.data[i].symbol = symbol}

\* C16: in a written summary, the averagePrice of every entry is the sum of the
\* non-null prices logged for its symbol divided by their number; records with
\* price null count for nothing.
C16_AverageIsMeanOfPrices ==
    summaryFile.state = "json" =>
        \A i \in 1..Len(summaryFile.data) :
            LET at == PricedAt(SummarizedLog, summaryFile.data[i].symbol)
            IN  /\ at # {}
                /\ summaryFile.data[i].averagePrice =
                       Div(SumAt(SummarizedLog, at), Num(Cardinality(at)))

\* A summary of a log in which the first stock has the prices 100, none, 110.
C16_Witness ==
    /\ summaryFile.state = "json"
    /\ Len(SummarizedLog) = 3
    /\ SummarizedLog[1].stocks[1].price = Num(100)
    /\ SummarizedLog[2].stocks[1].price = Null
    /\ SummarizedLog[3].stocks[1].price = Num(110)
    /\ \E i \in EntriesOf(stocks[1].symbol) : summaryFile.data[i].averagePrice = Num(105)

\* C17: a written summary has exactly one entry for every symbol with at least
\* one non-null price in the log, and none for any other symbol.
C17_OneEntryPerPricedSymbol ==
    summaryFile.state = "json" =>
        /\ \A s \in Symbols :
               Cardinality(EntriesOf(s)) = IF PricedAt(SummarizedLog, s) # {} THEN 1 ELSE 0
        /\ \A i \in 1..Len(summaryFile.data) : summaryFile.data[i].symbol \in Symbols

\* A summary of a log of three entries in which the first stock never has a price
\* and the second always has one.
C17_Witness ==
    /\ summaryFile.state = "json"
    /\ Len(SummarizedLog) = 3
    /\ \A k \in 1..3 : SummarizedLog[k].stocks[1].price = Null
    /\ \A k \in 1..3 : SummarizedLog[k].stocks[2].price # Null
    /\ Len(summaryFile.data) = 1

\* The first entry of log, in log order, at which symbol has the price price.
FirstEntryWith(log, symbol, price) ==
    CHOOSE k \in 1..Len(log) :
        /\ \E j \in 1..Len(stocks) : <<k, j>> \in PricedAt(log, symbol)
                                     /\ log[k].stocks[j].price = price
        /\ \A h \in 1..(k - 1) : \A j \in 1..Len(stocks) :
               <<h, j>> \in PricedAt(log, symbol) => log[h].stocks[j].price # price

\* C18: in a written summary, minPrice and maxPrice of every entry are the least
\* and the greatest non-null price logged for its symbol, and minTime and maxTime
\* are the timestamps of the first entry of the log that has that price.
C18_ExtremesAndFirstTimes ==
    summaryFile.state = "json" =>
        \A i \in 1..Len(summaryFile.data) :
            LET e   == summaryFile.data[i]
                log == SummarizedLog
                at  == PricedAt(log, e.symbol)
            IN  /\ \E p \in at : log[p[1]].stocks[p[2]].price = e.minPrice
                /\ \E p \in at : log[p[1]].stocks[p[2]].price = e.maxPrice
                /\ \A p \in at :
                       /\ ~Lt(log[p[1]].stocks[p[2]].price, e.minPrice)
                       /\ ~Gt(log[p[1]].stocks[p[2]].price, e.maxPrice)
                /\ e.minTime = log[FirstEntryWith(log, e.symbol, e.minPrice)].timestamp
                /\ e.maxTime = log[FirstEntryWith(log, e.symbol, e.maxPrice)].timestamp

\* A summary of a log in which the first stock has the prices 100, 110, 110: the
\* maximum is tied by the last entry and its time is that of the second.
C18_Witness ==
    /\ summaryFile.state = "json"
    /\ Len(SummarizedLog) = 3
    /\ SummarizedLog[1].stocks[1].price = Num(100)
    /\ SummarizedLog[2].stocks[1].price = Num(110)
    /\ SummarizedLog[3].stocks[1].price = Num(110)
    /\ \E i \in EntriesOf(stocks[1].symbol) :
           summaryFile.data[i].maxTime = 2 /\ summaryFile.data[i].minTime = 1

\* C19: when the file the reducer read is not a log (text that is not JSON, JSON
\* that is not an array, an array with an element that is no log entry), the
\* reducer has reported a parse error and exited with code 1, and no summary file
\* was written.
C19_MalformedLogFails ==
    reducer.input.state \in {"partial", "notArray", "noStocks"} =>
        /\ reducer.pc = "exited"
        /\ reducer.code = 1
        /\ reducer.report = "Error parsing daily log JSON:"
        /\ summaryFile = NoFile

\* The reducer has exited after reading JSON that is not an array.
C19_Witness ==
    /\ reducer.pc = "exited"
    /\ reducer.input.state = "notArray"
    /\ logFile.state = "notArray"


(***************************************************************************)
(* Properties of the print threshold.                                      *)
(***************************************************************************)
\* The block f has a row for the stock at position index.
Rendered(f, index) == \E r \in 1..Len(f.rows) : f.rows[r].symbol = stocks[index].symbol

\* The percentChange of the stock at position index in the newest entry of log.
NewestChange(log, index) == RecordAt(log, Len(log), index).percentChange

\* C20 as stated: the block printed by the first invocation that completes has a
\* row for every tracked stock; the block printed by a later one has a row for a
\* stock exactly when its percentChange is present and its absolute value is
\* greater than 0.05.
C20_RenderedIffExceeds ==
    [][\A c \in calls :
          (c.resolved = 1..Len(stocks) /\ c \notin calls') =>
              \A i \in 1..Len(stocks) :
                  Rendered(frame', i) <=>
                      \/ Len(dailyLog) = 0
                      \/ /\ NewestChange(dailyLog', i) # Null
                         /\ Gt(Abs(NewestChange(dailyLog', i)), Rat(5, 100))]_vars

\* C20 amended: the block printed by the first invocation that completes has a
\* row for every tracked stock; the block printed by a later one has a row for a
\* stock exactly when its percentChange is present and its absolute value is at
\* least 0.05, so a stock with percentChange 0 is shown by the first block and by
\* no later one.
C20_RenderedIffAtLeast ==
    [][\A c \in calls :
          (c.resolved = 1..Len(stocks) /\ c \notin calls') =>
              \A i \in 1..Len(stocks) :
                  Rendered(frame', i) <=>
                      \/ Len(dailyLog) = 0
                      \/ /\ NewestChange(dailyLog', i) # Null
                         /\ \/ Gt(Abs(NewestChange(dailyLog', i)), Rat(5, 100))
                            \/ Abs(NewestChange(dailyLog', i)) = Rat(5, 100)]_vars

\* The third block: the first stock, unchanged in the second cycle, has moved by
\* exactly 0.05 percent and is shown; the second stock, unchanged, is not.
C20_Witness ==
    /\ Len(dailyLog) = 3
    /\ RecordAt(dailyLog, 1, 1).percentChange = Num(0)
    /\ RecordAt(dailyLog, 2, 1).percentChange = Num(0)
    /\ RecordAt(dailyLog, 3, 1).percentChange = Rat(5, 100)
    /\ RecordAt(dailyLog, 3, 2).percentChange = Num(0)
    /\ frame.timestamp = dailyLog[3].timestamp
    /\ Rendered(frame, 1)
    /\ ~Rendered(frame, 2)


(***************************************************************************)
(* Properties of the SEK converter: start and running average.             *)
(***************************************************************************)
\* C23: when the API key is missing from the environment, the converter never
\* has its timer set: it is at the key check or has exited, with exit code 1
\* once it has exited, and no poll was started, no invocation of trackPrice is
\* waiting for a quote or a rate, and no update was applied.
C23_MissingKeyExitsBeforeTimer ==
    apiKey = "" =>
        /\ sekPhase \in {"start", "exited"}
        /\ sekPhase = "exited" => sekExitCode = 1
        /\ sekClock = 0
        /\ polls = {}
        /\ pollCount = 0
        /\ rows = <<>>

\* The converter was started without a key and has exited.
C23_Witness ==
    /\ apiKey = ""
    /\ sekPhase = "exited"
    /\ sekExitCode = 1
    /\ sekConsole = "API_KEY is missing in .env file."

\* The sum of the SEK prices of the first n rendered rows.  The prices the model
\* feeds in have at most two decimals, so a row shows its price unrounded.
RECURSIVE SumOfRows(_, _)
SumOfRows(rs, n) == IF n = 0 THEN Num(0) ELSE Add(SumOfRows(rs, n - 1), rs[n].sek)

\* C24: after every step of the converter, pollCount is the number of rendered
\* rows, totalPriceSek is the sum of the SEK prices of those rows, and the header
\* shows their arithmetic mean; pollCount moves only by one, in the step in which
\* an invocation of trackPrice ends with an applied update (one that passed the
\* quote step and, for a foreign currency, the conversion step), and a skipped
\* update leaves count, total and rows alone.  Invocations may overlap.
C24_CountAndTotalMatchRows ==
    [][/\ pollCount' = Len(rows')
       /\ totalPriceSek' = SumOfRows(rows', Len(rows'))
       /\ pollCount' > 0 => sekHeader' = ToFixed2(Div(SumOfRows(rows', Len(rows')), Num(Len(rows'))))
       /\ pollCount' # pollCount =>
              /\ pollCount' = pollCount + 1
              /\ \E p \in polls : polls' = polls \ {p}
              /\ sekConsole' = "Running Average (SEK)"
              /\ rows' = Append(rows, rows'[Len(rows')])
              /\ rows'[Len(rows')].sek = ToFixed2(prevPriceSek')
       /\ pollCount' = pollCount => (rows' = rows /\ totalPriceSek' = totalPriceSek)]_vars

\* Three invocations overlapped: all of them were applied after the third tick.
C24_Witness ==
    /\ sekClock = 3
    /\ polls = {}
    /\ pollCount = 3
    /\ rows[1].time = 3
    /\ rows[1].sek # rows[2].sek
    /\ sekHeader = ToFixed2(Div(Add(Add(rows[1].sek, rows[2].sek), rows[3].sek), Num(3)))
    /\ IsFinite(totalPriceSek)

(***************************************************************************)
(* Properties of the log at shutdown and of its order.                     *)
(***************************************************************************)
\* C28: once the reducer has read the log file (its readFile did not fail),
\* what it read holds every entry that was in the in-memory daily log when the
\* SIGINT handler ran.
C28_ReadLogHoldsEntriesBeforeSignal ==
    (reducer.pc \in {"writing", "exited"} /\ reducer.report # "Error reading daily log file:") =>
        \A k \in 1..Len(logAtSignal) :
            /\ reducer.input.state = "json"
            /\ \E j \in 1..Len(reducer.input.data) :
                   reducer.input.data[j] = JsonStringify(logAtSignal)[k]

\* C29: from the step after the SIGINT handler on, no step appends to the
\* in-memory daily log or issues a write of the log file, and a log file that is
\* absent is not created.
C29_NoAppendAfterSignal ==
    [][phase # "running" =>
           /\ dailyLog' = dailyLog
           /\ writes' \subseteq writes
           /\ (logFile = NoFile /\ phase = "exited") => logFile' = NoFile]_vars

\* C30: the timestamps of the entries of the in-memory daily log never decrease
\* along the log.
C30_TimestampsNonDecreasing ==
    \A k \in 1..(Len(dailyLog) - 1) : dailyLog[k].timestamp <= dailyLog[k + 1].timestamp


(***************************************************************************)
(* Properties of the all-stocks display.                                   *)
(***************************************************************************)
\* C21: the block printed by a cycle of the all-stocks display has exactly one
\* row per tracked stock, in the order of the stock list; the row of a stock
\* whose fetch gave no price is there too, with "N/A" as current price and as
\* percent change, and the row of a priced stock shows its price.
C21_OneRowPerSymbol ==
    frame # NoFrame =>
        /\ Len(frame.rows) = Len(stocks)
        /\ \A i \in 1..Len(stocks) :
               LET record == dailyLog[Len(dailyLog)].stocks[i]
                   row    == frame.rows[i]
               IN  /\ row.symbol = stocks[i].symbol
                   /\ record.price = Null =>
                          (row.current = NotAvailable /\ row.change = NotAvailable)
                   /\ record.price # Null => row.current = ToFixed2(record.price)

\* A cycle after the first one printed a row for a stock whose fetch failed,
\* and the row still shows the start price set earlier.
C21_Witness ==
    /\ Len(dailyLog) >= 2
    /\ frame.timestamp = dailyLog[Len(dailyLog)].timestamp
    /\ dailyLog[Len(dailyLog)].stocks[1].price = Null
    /\ Len(frame.rows) = Len(stocks)
    /\ frame.rows[1].current = NotAvailable
    /\ frame.rows[1].startPrice # NotAvailable

\* C22: the colour of the percent-change cell of a printed row follows from the
\* sign of the percent change alone: green for every positive value, red for
\* every negative value, and white both for zero and for an absent value.
C22_ColorFromSign ==
    frame # NoFrame =>
        \A i \in 1..Len(frame.rows) :
            LET percentChange == dailyLog[Len(dailyLog)].stocks[i].percentChange
                color         == frame.rows[i].color
            IN  /\ color \in {"green", "red", "white"}
                /\ (percentChange # Null /\ Gt(percentChange, Num(0))) => color = "green"
                /\ (percentChange # Null /\ Lt(percentChange, Num(0))) => color = "red"
                /\ (percentChange = Null \/ percentChange = Num(0)) => color = "white"

\* One block shows a fall in red next to an unchanged price in white.
C22_Witness ==
    /\ frame # NoFrame
    /\ frame.rows[1].color = "red"
    /\ frame.rows[2].color = "white"
    /\ dailyLog[Len(dailyLog)].stocks[2].percentChange = Num(0)


(***************************************************************************)
(* Properties of the previous-price tracker.                               *)
(***************************************************************************)
\* The positions before k of the entries of log with a price for the stock at
\* position index.
EarlierPriced(log, k, index) == {j \in 1..(k - 1) : RecordAt(log, j, index).price # Null}

\* The newest of those prices.
PrevPrice(log, k, index) ==
    LET js == EarlierPriced(log, k, index)
    IN  RecordAt(log, CHOOSE j \in js : \A i \in js : i <= j, index).price

\* C25: in every record of the log of the previous-price tracker, percentChange
\* is null exactly when the record has no price (the fetch failed) or no earlier
\* entry has a price for the symbol; otherwise it is 0 when the price equals the
\* newest earlier price prev of the symbol, and (price - prev) / prev * 100 in
\* the arithmetic of the language when it differs.  Entries without a price in
\* between do not move prev.
C25_ChangeSincePreviousPrice ==
    \A k \in 1..Len(dailyLog) : \A index \in 1..Len(stocks) :
        LET record == RecordAt(dailyLog, k, index)
            none   == record.price = Null \/ EarlierPriced(dailyLog, k, index) = {}
        IN  /\ record.percentChange = Null <=> none
            /\ ~none =>
                  LET prev == PrevPrice(dailyLog, k, index)
                  IN  record.percentChange =
                          IF record.price = prev THEN Num(0)
                          ELSE Mul(Div(Sub(record.price, prev), prev), Num(100))

\* The symbol was priced at 100, then its fetch failed, then it was priced at
\* 110: the third record carries a change of 10 percent.
C25_Witness ==
    /\ Len(dailyLog) = 3
    /\ RecordAt(dailyLog, 1, 1).price = Num(100)
    /\ RecordAt(dailyLog, 2, 1).price = Null
    /\ RecordAt(dailyLog, 2, 1).percentChange = Null
    /\ RecordAt(dailyLog, 3, 1).price = Num(110)
    /\ RecordAt(dailyLog, 3, 1).percentChange = Num(10)

\* C26: the block printed by a cycle of the previous-price tracker has a row for
\* a stock only if no earlier cycle had a price for it (its first update) or its
\* price changed: it differs from the price of its previous priced update or from
\* what the previous entry of the log holds for it (a price or none).  In every
\* other case there is no row; the entry of the cycle holds a record for every
\* stock in either case.
C26_RowOnlyWhenPriceChanged ==
    frame # NoFrame =>
        LET k == Len(dailyLog)
        IN  /\ Len(dailyLog[k].stocks) = Len(stocks)
            /\ \A index \in 1..Len(stocks) :
                   LET record  == RecordAt(dailyLog, k, index)
                       first   == EarlierPriced(dailyLog, k, index) = {}
                       changed ==
                           \/ k > 1 /\ record.price # RecordAt(dailyLog, k - 1, index).price
                           \/ /\ record.price # Null
                              /\ ~first
                              /\ record.price # PrevPrice(dailyLog, k, index)
                   IN  Rendered(frame, index) => (first \/ changed)

(***************************************************************************)
(* Properties of the standalone reducer.                                   *)
(***************************************************************************)
\* C27: a step of the standalone reducer changes the log file only by deleting
\* it, and only when the summary file holds the summary of what was read; the
\* step that ends the unlink ends the process with code 0 whether the file was
\* deleted or not (a failed deletion is reported); and a process that ends on a
\* log file that is missing or cannot be parsed ends with code 1 and leaves the
\* files as they were.
C27_DeleteAfterSummaryWritten ==
    [][/\ logFile' # logFile =>
              /\ logFile' = NoFile
              /\ reducer.input = logFile
              /\ summaryFile = [state |-> "json", data |-> JsonSummary(reducer.summary)]
              /\ reducer.report = "Daily summary written to"
       /\ (reducer.pc = "unlinking" /\ reducer'.pc = "exited") =>
              /\ reducer'.code = 0
              /\ logFile' = logFile => reducer'.report = "Error deleting daily log file:"
       /\ (reducer'.pc = "exited" /\ logFile.state # "json") =>
              /\ reducer'.code = 1
              /\ logFile' = logFile
              /\ summaryFile' = NoFile]_vars

\* The summary was written, the deletion of the log failed and the process
\* exited with 0; the log is still there.
C27_Witness ==
    /\ reducer.pc = "exited"
    /\ reducer.code = 0
    /\ reducer.report = "Error deleting daily log file:"
    /\ logFile.state = "json"
    /\ Len(logFile.data) >= 1
    /\ summaryFile.state = "json"

=============================================================================
